---------------------------- MODULE Spec2Model ----------------------------
(***************************************************************************)
(* The frame-lifecycle and resource-synchronisation engine of              *)
(* src/main.cpp (HelloTriangleApplication): swapchain creation and         *)
(* recreation, the frames-in-flight fence protocol of drawFrame, the main  *)
(* loop, and the memory-type selection used by every allocation.           *)
(*                                                                         *)
(* One CPU thread runs the program; its position is the continuation pc,   *)
(* the list of the statements still to execute.  The GPU runs beside it:   *)
(* GpuComplete finishes a submitted batch at any moment.                   *)
(***************************************************************************)
EXTENDS Integers, Sequences, FiniteSets, TLC

---------------------------------------------------------------------------
(* Program constants *)

MAX_FRAMES_IN_FLIGHT == 2

\* the largest uint32_t, the "no extent reported" mark of currentExtent.width;
\* the model's uint32_t is 16 bits wide, as wide as the model checker's
\* integers allow with room to spare
UINT32_MAX == 65535

(* Bounds of the model *)

\* the most images the driver hands out for one swapchain
MaxImages == 3

\* the most memory types of the physical device (findMemoryType)
MaxMemoryTypes == 3

\* the widest and highest small texture (createTextureImage)
MaxTextureSize == 8

\* the most bytes of vertex data and of index data (the staging uploads)
MaxHostBytes == 2

\* the largest minImageCount and maxImageCount a surface reports, apart
\* from UINT32_MAX (createSwapchain's image count)
MaxReportedCount == 10

\* the most GPUs enumeratePhysicalDevices returns
MaxDevices == 2

\* the most queue families of one GPU
MaxQueueFamilies == 2

---------------------------------------------------------------------------
(* Values *)

Slots == 0 .. (MAX_FRAMES_IN_FLIGHT - 1)

\* imagesInFlight's "none": (size_t) -1
NoSlot == -1

Min(a, b) == IF a < b THEN a ELSE b
Max(a, b) == IF a > b THEN a ELSE b

\* std::clamp(v, lo, hi)
Clamp(v, lo, hi) == IF v < lo THEN lo ELSE IF hi < v THEN hi ELSE v

Extent(w, h) == [width |-> w, height |-> h]

SurfaceFormat(f, c) == [format |-> f, colorSpace |-> c]

(* The surfaces the frame loop is run against: what querySwapchainSupport  *)
(* returns.  SurfaceFixed reports its own extent and no upper limit on the *)
(* image count (maxImageCount = 0); SurfaceFree leaves the extent to the   *)
(* window (currentExtent.width = UINT32_MAX) and allows one image only.    *)
SurfaceFixed ==
    [minImageCount |-> 1, maxImageCount |-> 0,
     currentExtent |-> Extent(2, 1),
     minImageExtent |-> Extent(1, 1), maxImageExtent |-> Extent(3, 3),
     formats |-> << SurfaceFormat("R8G8B8A8Unorm", "SrgbNonlinear"),
                    SurfaceFormat("B8G8R8A8Unorm", "SrgbNonlinear") >>,
     presentModes |-> << "Fifo", "Mailbox" >>]

SurfaceFree ==
    [minImageCount |-> 1, maxImageCount |-> 1,
     currentExtent |-> Extent(UINT32_MAX, UINT32_MAX),
     minImageExtent |-> Extent(2, 1), maxImageExtent |-> Extent(3, 2),
     formats |-> << SurfaceFormat("R8G8B8A8Srgb", "SrgbNonlinear") >>,
     presentModes |-> << "Fifo" >>]

Surfaces == {SurfaceFixed, SurfaceFree}

\* SDL_GetWindowSize
WindowSizes == {Extent(1, 3), Extent(4, 2)}

HandleKinds == {"swapchain", "renderPass", "graphicsPipelines", "colorImage",
                "depthImage", "commandPool", "descriptorPool"}

ArrayKinds == {"swapchainImageViews", "swapchainFramebuffers",
               "uniformBuffers", "descriptorSets", "commandBuffers"}

---------------------------------------------------------------------------
VARIABLES
    pc,                   \* the CPU thread's continuation: statements to run
    exitStatus,           \* main's return value, "running" until it returns
    exception,            \* the exception in flight or caught, "none" if none
    hppThrowsOutOfDate,   \* the build: does vulkan.hpp throw eErrorOutOfDateKHR
    quitting,
    currentFrame,
    inFlightFences,       \* slot -> signaled?
    imagesInFlight,       \* sequence over image index + 1 of NoSlot or a slot
    pending,              \* slot -> images of its incomplete submissions
    result,               \* drawFrame's local: [result, value] of acquisition
    swapchainImages,      \* swapchainImages.size()
    swapchainImageFormat,
    swapchainExtent,
    imageCount,           \* createSwapchain's local: the count asked for
    handles,              \* single handle -> "Null" | "Cur" | "Old"
    arrays,               \* per-image vector -> sequence of "Cur" | "Old"
    surface,              \* what the surface reports now
    window,               \* the window's size now
    createdFor,           \* the surface and window the swapchain was made for
    df,                   \* what the drawFrame in progress (or last) has done
    memProperties,        \* findMemoryType: the device's memory types' flags
    typeFilter,           \* findMemoryType's argument: a bitmask
    properties,           \* findMemoryType's argument: the flags required
    fmIndex,              \* findMemoryType's loop variable i
    fmReturn,             \* how findMemoryType has ended, and with what
    texWidth,             \* createTextureImage: the loaded image's size
    texHeight,
    linearBlit,           \* does the format support linear-filtered blits
    mipLevels,
    mipWidth,             \* generateMipmaps' locals
    mipHeight,
    mipI,                 \* generateMipmaps' loop variable i
    levelLayout,          \* mip level + 1 -> the layout the level is in
    levelData,            \* mip level + 1 -> has the level been written
    recorded,             \* the commands generateMipmaps has recorded
    mipPc,                \* the statement createTextureImage is at
    upPc,                 \* the uploads: the statements still to execute
    hostVertices,         \* vertices.data(), as bytes
    hostIndices,          \* indices.data(), as bytes
    stagingBuffer,        \* the local stagingBuffer: [alive, bytes]
    deviceLocal,          \* device-local resource -> its bytes
    oneShot,              \* the command the one-shot command buffer holds
    submitted,            \* the one-shot submissions the queue has not finished
    uploaded,             \* the upload functions that have returned
    deviceCount,          \* physicalDevices.size()
    pickI,                \* the place in physicalDevices of the loop's device
    candidate,            \* what the device examined last reports
    physicalDevice,       \* the place of the chosen device, 0 for none
    queueIndices,         \* createLogicalDevice's local indices
    pickPc,               \* the statement pickPhysicalDevice is at
    imageAvailableSemaphores,  \* slot -> has the semaphore a pending signal
    renderFinishedSemaphores,  \* slot -> has the semaphore a pending signal
    presentWaits          \* slot -> images whose present has not yet waited

appVars == << pc, exitStatus, exception, hppThrowsOutOfDate, quitting,
              currentFrame, inFlightFences, imagesInFlight, pending, result,
              swapchainImages, swapchainImageFormat, swapchainExtent,
              imageCount, handles, arrays, surface, window, createdFor, df >>

memVars == << memProperties, typeFilter, properties, fmIndex, fmReturn >>

mipVars == << texWidth, texHeight, linearBlit, mipLevels, mipWidth, mipHeight,
              mipI, levelLayout, levelData, recorded, mipPc >>

upVars == << upPc, hostVertices, hostIndices, stagingBuffer, deviceLocal,
             oneShot, submitted, uploaded >>

pickVars == << deviceCount, pickI, candidate, physicalDevice, queueIndices,
               pickPc >>

semVars == << imageAvailableSemaphores, renderFinishedSemaphores,
              presentWaits >>

\* the variables of the functions that are modelled on their own
sideVars == << memVars, mipVars, upVars, pickVars, semVars >>

vars == << appVars, sideVars >>

\* what a step of findMemoryType leaves alone apart from its own variables
memRest == << appVars, mipVars, upVars, pickVars, semVars >>

\* what a step of createTextureImage leaves alone apart from its own
mipRest == << appVars, memVars, upVars, pickVars, semVars >>

\* what a step of an upload leaves alone apart from the uploads' variables
upRest == << appVars, memVars, mipVars, pickVars, semVars >>

\* what a step of device selection leaves alone apart from its own
pickRest == << appVars, memVars, mipVars, upVars, semVars >>

cpuVars == << exitStatus, exception, quitting, currentFrame, imagesInFlight,
              result, df >>

swapVars == << swapchainImages, swapchainImageFormat, swapchainExtent,
               imageCount, handles, arrays, createdFor >>

envVars == << surface, window, hppThrowsOutOfDate, sideVars >>

gpuVars == << inFlightFences, pending >>

---------------------------------------------------------------------------
(* Swapchain parameters: createSwapchain's pure part *)

\* chooseSwapSurfaceFormat: the first B8G8R8A8Unorm/SrgbNonlinear entry,
\* else the first entry
chooseSwapSurfaceFormat(availableFormats) ==
    LET hits == {i \in DOMAIN availableFormats :
                    /\ availableFormats[i].format = "B8G8R8A8Unorm"
                    /\ availableFormats[i].colorSpace = "SrgbNonlinear"}
    IN  IF hits # {}
        THEN availableFormats[CHOOSE i \in hits : \A j \in hits : i <= j]
        ELSE availableFormats[1]

\* chooseSwapPresentMode: Mailbox when offered, else Fifo
chooseSwapPresentMode(availablePresentModes) ==
    IF \E i \in DOMAIN availablePresentModes :
           availablePresentModes[i] = "Mailbox"
    THEN "Mailbox"
    ELSE "Fifo"

\* chooseSwapExtent: the surface's extent when it reports one, else the
\* window's size clamped into the surface's limits
chooseSwapExtent(capabilities, win) ==
    IF capabilities.currentExtent.width # UINT32_MAX
    THEN capabilities.currentExtent
    ELSE Extent(Clamp(win.width, capabilities.minImageExtent.width,
                      capabilities.maxImageExtent.width),
                Clamp(win.height, capabilities.minImageExtent.height,
                      capabilities.maxImageExtent.height))

\* an imageCount taken from the swapchain being replaced: one more than it has
RequestedImageCountFromCurrent(capabilities) ==
    IF swapchainImages > 0
    THEN swapchainImages + 1
    ELSE (capabilities.minImageCount + 1) % (UINT32_MAX + 1)

\* an imageCount that is never cut down
RequestedImageCountUnclamped(capabilities) ==
    (capabilities.minImageCount + 1) % (UINT32_MAX + 1)

\* createSwapchain's imageCount: minImageCount + 1 (uint32_t), cut down to
\* maxImageCount when the surface states one
RequestedImageCount(capabilities) ==
    LET count == (capabilities.minImageCount + 1) % (UINT32_MAX + 1)
    IN  IF capabilities.maxImageCount > 0 /\ count > capabilities.maxImageCount
        THEN capabilities.maxImageCount
        ELSE count

\* getSwapchainImagesKHR: the driver creates at least the count asked for and
\* at most what the surface allows
DriverImageCounts(count, capabilities) ==
    {n \in count .. MaxImages :
        capabilities.maxImageCount > 0 => n <= capabilities.maxImageCount}

\* A handle made for the previous swapchain once a new swapchain exists
Age(tag) == IF tag = "Cur" THEN "Old" ELSE tag

\* v.resize(n) alone, the loop filling only the elements resize has added
ResizeAndAssignNew(old, n) ==
    [i \in 1 .. n |-> IF i <= Len(old) THEN old[i] ELSE "Cur"]

\* v.resize(n) followed by the loop that assigns a fresh object to every
\* element: the old elements are destroyed by the assignment
ResizeAndAssignEach(old, n) == [i \in 1 .. n |-> "Cur"]

\* v = allocate...(count): the whole vector is replaced
AllocateAll(old, n) == [i \in 1 .. n |-> "Cur"]

---------------------------------------------------------------------------
(* Control *)

RECURSIVE SkipTo(_, _)
\* the suffix of continuation s that starts at statement l
SkipTo(s, l) ==
    IF s = << >> \/ Head(s) = l THEN s ELSE SkipTo(Tail(s), l)

At(l) == pc # << >> /\ Head(pc) = l

Has(l) == \E i \in DOMAIN pc : pc[i] = l

\* initVulkan, the calls that build swapchain state and the sync objects
InitVulkanBody ==
    << "createSwapchain", "createImageViews", "createRenderPass",
       "createGraphicsPipeline", "createCommandPool", "createColorResources",
       "createDepthResources", "createFramebuffers", "createTextureImage",
       "loadModel", "createVertexBuffer", "createIndexBuffer",
       "createUniformBuffers", "createDescriptorPool", "createDescriptorSets",
       "createCommandBuffers", "createSyncObjects" >>

RunBodyCleanupFirst ==
    InitVulkanBody \o << "mainLoop", "cleanup", "mainLoop_waitIdle", "return" >>

\* run: initVulkan(); mainLoop(); cleanup(); then main returns
RunBody ==
    InitVulkanBody \o << "mainLoop", "mainLoop_waitIdle", "cleanup", "return" >>

DrawFrameBodyResetFirst ==
    << "df_waitForFences", "df_resetFences", "df_acquireNextImage",
       "df_checkResult", "df_waitImageFence", "df_claimImage",
       "df_updateUniformBuffer", "df_submit", "df_present", "df_advance",
       "df_return" >>

DrawFrameBodySubmitFirst ==
    << "df_waitForFences", "df_acquireNextImage", "df_checkResult",
       "df_waitImageFence", "df_claimImage", "df_submit", "df_resetFences",
       "df_updateUniformBuffer", "df_present", "df_advance", "df_return" >>

\* drawFrame's statements in the order of its text
DrawFrameBody ==
    << "df_waitForFences", "df_acquireNextImage", "df_checkResult",
       "df_waitImageFence", "df_claimImage", "df_resetFences",
       "df_updateUniformBuffer", "df_submit", "df_present", "df_advance",
       "df_return" >>

RecreateBody ==
    << "rc_waitIdle", "createSwapchain", "createImageViews",
       "createRenderPass", "createGraphicsPipeline", "createColorResources",
       "createDepthResources", "createFramebuffers", "rc_clear",
       "createCommandPool", "createUniformBuffers", "createDescriptorPool",
       "createDescriptorSets", "createCommandBuffers", "rc_return" >>

NoResult == [result |-> "none", value |-> 0]

NoFrame == [waited |-> NoSlot, presented |-> "none", steps |-> << >>]

\* the drawFrame in progress, having carried out one more statement
Done(frame, statement) == [frame EXCEPT !.steps = Append(@, statement)]

NoException == [what |-> "none", from |-> "none"]

\* recreateSwapchain is executing (it has not returned yet)
InRecreate == Has("rc_return")

\* the program is past initVulkan and inside neither drawFrame nor recreate
Terminated == pc = << >>

AppInit ==
    /\ pc = RunBody
    /\ exitStatus = "running"
    /\ exception = NoException
    /\ hppThrowsOutOfDate \in BOOLEAN
    /\ quitting = FALSE
    /\ currentFrame = 0
    /\ inFlightFences = << >>
    /\ imagesInFlight = << >>
    /\ pending = [s \in Slots |-> {}]
    /\ result = NoResult
    /\ swapchainImages = 0
    /\ swapchainImageFormat = "Undefined"
    /\ swapchainExtent = Extent(0, 0)
    /\ imageCount = 0
    /\ handles = [k \in HandleKinds |-> "Null"]
    /\ arrays = [k \in ArrayKinds |-> << >>]
    /\ surface \in Surfaces
    /\ window \in WindowSizes
    /\ createdFor = [surface |-> surface, window |-> window]
    /\ df = NoFrame

\* findMemoryType has not been called
MemIdle ==
    /\ memProperties = << >>
    /\ typeFilter = 0
    /\ properties = {}
    /\ fmIndex = 0
    /\ fmReturn = [status |-> "idle", index |-> 0]

\* createTextureImage has not been called
MipIdle ==
    /\ texWidth = 0
    /\ texHeight = 0
    /\ linearBlit = TRUE
    /\ mipLevels = 0
    /\ mipWidth = 0
    /\ mipHeight = 0
    /\ mipI = 0
    /\ levelLayout = << >>
    /\ levelData = << >>
    /\ recorded = << >>
    /\ mipPc = "idle"

\* the application as constructed, on one surface and in one build
AppQuiet ==
    /\ AppInit
    /\ hppThrowsOutOfDate
    /\ surface = SurfaceFixed
    /\ window = Extent(4, 2)

NoCommand == [op |-> "none", src |-> "none", dst |-> "none", size |-> 0]

NoBuffer == [alive |-> FALSE, bytes |-> << >>]

DeviceLocalNames == {"textureImage", "vertexBuffer", "indexBuffer"}

\* no upload function has been called
UpIdle ==
    /\ upPc = << >>
    /\ hostVertices = << >>
    /\ hostIndices = << >>
    /\ stagingBuffer = NoBuffer
    /\ deviceLocal = [r \in DeviceLocalNames |-> << >>]
    /\ oneShot = NoCommand
    /\ submitted = << >>
    /\ uploaded = {}

\* an empty std::optional<uint32_t>
NoFamily == [has |-> FALSE, value |-> 0]

\* QueueFamilyIndices as constructed
NoIndices == [graphicsFamily |-> NoFamily, presentFamily |-> NoFamily]

\* a device nothing has been asked about
NoDevice ==
    [queueFamilies |-> << >>, extensions |-> {}, formats |-> 0,
     presentModes |-> 0, samplerAnisotropy |-> FALSE]

\* pickPhysicalDevice has not been called
PickIdle ==
    /\ deviceCount = 0
    /\ pickI = 0
    /\ candidate = NoDevice
    /\ physicalDevice = 0
    /\ queueIndices = NoIndices
    /\ pickPc = "idle"

\* the frame loop's semaphores are not looked at
SemIdle ==
    /\ imageAvailableSemaphores = [s \in Slots |-> FALSE]
    /\ renderFinishedSemaphores = [s \in Slots |-> FALSE]
    /\ presentWaits = [s \in Slots |-> {}]

Init == AppInit /\ MemIdle /\ MipIdle /\ UpIdle /\ PickIdle /\ SemIdle

---------------------------------------------------------------------------
(* The GPU and the device *)

\* the graphics queue finishes the batch (or batches) submitted with slot
\* s's fence: the work is complete and the fence becomes signaled
GpuComplete(s) ==
    /\ pending[s] # {}
    /\ pending' = [pending EXCEPT ![s] = {}]
    /\ inFlightFences' = [inFlightFences EXCEPT ![s + 1] = TRUE]
    /\ UNCHANGED << pc, cpuVars, swapVars, envVars >>

\* a waitIdle that returns while batches are still running
DeviceIdleNotAwaited == TRUE

\* device->waitIdle() returns: every submitted batch is complete
DeviceIdle == \A s \in Slots : pending[s] = {}

\* a fence wait that returns at once (a zero timeout)
FenceNotAwaited(s) == TRUE

\* device->waitForFences(1, &inFlightFences[s], true, UINT64_MAX) returns
FenceSignaled(s) == inFlightFences[s + 1]

\* an error that is noted and passed over: the statement after the failed
\* call runs next
ThrowIgnored(what, from) ==
    /\ pc' = Tail(pc)
    /\ exception' = [what |-> what, from |-> from]

\* an exception leaves every frame of the call stack: control is in main's
\* catch clause
Throw(what, from) ==
    /\ pc' = << "catch" >>
    /\ exception' = [what |-> what, from |-> from]

---------------------------------------------------------------------------
(* Swapchain state: the create* functions of initVulkan and of recreate *)

createSwapchain ==
    /\ At("createSwapchain")
    /\ imageCount' = RequestedImageCount(surface)
    /\ \E n \in DriverImageCounts(imageCount', surface) :
          swapchainImages' = n
    /\ swapchainImageFormat' = chooseSwapSurfaceFormat(surface.formats).format
    /\ swapchainExtent' = chooseSwapExtent(surface, window)
    /\ handles' = [k \in HandleKinds |->
                      IF k = "swapchain" THEN "Cur" ELSE Age(handles[k])]
    /\ arrays' = [k \in ArrayKinds |->
                      [i \in DOMAIN arrays[k] |-> Age(arrays[k][i])]]
    /\ createdFor' = [surface |-> surface, window |-> window]
    /\ pc' = Tail(pc)
    /\ UNCHANGED << cpuVars, envVars, gpuVars >>

\* createRenderPass, createGraphicsPipeline, createColorResources,
\* createDepthResources, createCommandPool, createDescriptorPool: the new
\* object is created and assigned to the unique handle, which then destroys
\* the object it held
HandleOf(fn) ==
    CASE fn = "createRenderPass" -> "renderPass"
      [] fn = "createGraphicsPipeline" -> "graphicsPipelines"
      [] fn = "createColorResources" -> "colorImage"
      [] fn = "createDepthResources" -> "depthImage"
      [] fn = "createCommandPool" -> "commandPool"
      [] fn = "createDescriptorPool" -> "descriptorPool"

CreateFunctions ==
    {"createRenderPass", "createGraphicsPipeline", "createColorResources",
     "createDepthResources", "createCommandPool", "createDescriptorPool"}

createHandle(fn) ==
    /\ At(fn)
    /\ handles' = [handles EXCEPT ![HandleOf(fn)] = "Cur"]
    /\ pc' = Tail(pc)
    /\ UNCHANGED << cpuVars, envVars, gpuVars, swapchainImages,
                    swapchainImageFormat, swapchainExtent, imageCount, arrays,
                    createdFor >>

SetArray(k, v) ==
    /\ arrays' = [arrays EXCEPT ![k] = v]
    /\ pc' = Tail(pc)
    /\ UNCHANGED << cpuVars, envVars, gpuVars, swapchainImages,
                    swapchainImageFormat, swapchainExtent, imageCount, handles,
                    createdFor >>

createImageViews ==
    /\ At("createImageViews")
    /\ SetArray("swapchainImageViews",
                ResizeAndAssignEach(arrays["swapchainImageViews"],
                                    swapchainImages))

createFramebuffers ==
    /\ At("createFramebuffers")
    /\ SetArray("swapchainFramebuffers",
                ResizeAndAssignEach(arrays["swapchainFramebuffers"],
                                    Len(arrays["swapchainImageViews"])))

createUniformBuffers ==
    /\ At("createUniformBuffers")
    /\ SetArray("uniformBuffers",
                ResizeAndAssignEach(arrays["uniformBuffers"], swapchainImages))

createDescriptorSets ==
    /\ At("createDescriptorSets")
    /\ SetArray("descriptorSets",
                AllocateAll(arrays["descriptorSets"], swapchainImages))

createCommandBuffers ==
    /\ At("createCommandBuffers")
    /\ SetArray("commandBuffers",
                AllocateAll(arrays["commandBuffers"],
                            Len(arrays["swapchainFramebuffers"])))

FenceCreatedUnsignaled == FALSE

\* vk::FenceCreateInfo(vk::FenceCreateFlagBits::eSignaled)
FenceCreatedSignaled == TRUE

\* createSyncObjects: MAX_FRAMES_IN_FLIGHT fences created signaled, and
\* imagesInFlight.resize(swapchainImages.size(), -1)
createSyncObjects ==
    /\ At("createSyncObjects")
    /\ inFlightFences' =
           [i \in 1 .. MAX_FRAMES_IN_FLIGHT |-> FenceCreatedSignaled]
    /\ imagesInFlight' =
           [i \in 1 .. swapchainImages |->
               IF i <= Len(imagesInFlight) THEN imagesInFlight[i] ELSE NoSlot]
    /\ pc' = Tail(pc)
    /\ UNCHANGED << exitStatus, exception, quitting, currentFrame, result, df,
                    swapVars, envVars, pending >>

\* initVulkan's calls that load and upload the scene; what they do is
\* modelled on its own (the uploads, mipmap generation)
SceneFunctions ==
    {"createTextureImage", "loadModel", "createVertexBuffer",
     "createIndexBuffer"}

loadScene(fn) ==
    /\ At(fn)
    /\ pc' = Tail(pc)
    /\ UNCHANGED << cpuVars, swapVars, envVars, gpuVars >>

\* the statements that call Vulkan, the loaders or the allocator and fail
\* by throwing
FallibleStatements ==
    {"createSwapchain", "createImageViews", "createFramebuffers",
     "createUniformBuffers", "createDescriptorSets", "createCommandBuffers",
     "createSyncObjects", "rc_waitIdle", "mainLoop_waitIdle",
     "df_waitForFences", "df_acquireNextImage", "df_waitImageFence",
     "df_resetFences", "df_updateUniformBuffer", "df_submit", "df_present"}
        \cup CreateFunctions \cup SceneFunctions

\* where the program is: the statement of initVulkan, or the function
Stage ==
    IF Has("createSyncObjects") THEN Head(pc)
    ELSE IF InRecreate THEN "recreateSwapchain"
    ELSE IF At("mainLoop_waitIdle") THEN "mainLoop"
    ELSE "drawFrame"

\* a call fails with an error that is not swapchain staleness (device lost,
\* out of memory, a file that cannot be read): vulkan.hpp or the function
\* itself throws, the locals of the functions left are gone, and control
\* is in main's catch clause
fatalError ==
    /\ pc # << >>
    /\ Head(pc) \in FallibleStatements
    /\ Throw("SystemError", Stage)
    /\ result' = NoResult
    /\ df' = NoFrame
    /\ UNCHANGED << exitStatus, quitting, currentFrame, imagesInFlight,
                    swapVars, envVars, gpuVars >>

---------------------------------------------------------------------------
(* recreateSwapchain *)

\* device->waitIdle() at the head of recreateSwapchain
recreateWaitIdle ==
    /\ At("rc_waitIdle")
    /\ DeviceIdle
    /\ pc' = Tail(pc)
    /\ UNCHANGED << cpuVars, swapVars, envVars, gpuVars >>

\* commandBuffers.clear(); uniformBuffers.clear(); uniformBuffersMemory.clear()
recreateClear ==
    /\ At("rc_clear")
    /\ arrays' = [arrays EXCEPT !["commandBuffers"] = << >>,
                                !["uniformBuffers"] = << >>]
    /\ pc' = Tail(pc)
    /\ UNCHANGED << cpuVars, envVars, gpuVars, swapchainImages,
                    swapchainImageFormat, swapchainExtent, imageCount, handles,
                    createdFor >>

recreateReturn ==
    /\ At("rc_return")
    /\ pc' = Tail(pc)
    /\ UNCHANGED << cpuVars, swapVars, envVars, gpuVars >>

---------------------------------------------------------------------------
(* mainLoop, run, main *)

\* while (!quitting) { poll the events; drawFrame(); }
mainLoopTest ==
    /\ At("mainLoop")
    /\ pc' = IF quitting
             THEN Tail(pc)
             ELSE << "pollEvent" >> \o DrawFrameBody \o pc
    /\ UNCHANGED << cpuVars, swapVars, envVars, gpuVars >>

\* SDL_PollEvent returns 0: the inner loop ends
pollNoEvent ==
    /\ At("pollEvent")
    /\ pc' = Tail(pc)
    /\ UNCHANGED << cpuVars, swapVars, envVars, gpuVars >>

\* SDL_QUIT
pollQuit ==
    /\ At("pollEvent")
    /\ quitting' = TRUE
    /\ UNCHANGED << pc, exitStatus, exception, currentFrame, imagesInFlight,
                    result, df, swapVars, envVars, gpuVars >>

\* SDL_WINDOWEVENT_RESIZED: the window has a new size and the surface may
\* report new capabilities; recreateSwapchain() is called from the event loop
pollResized ==
    /\ At("pollEvent")
    /\ window' \in WindowSizes
    /\ surface' \in Surfaces
    /\ pc' = RecreateBody \o pc
    /\ UNCHANGED << cpuVars, swapVars, hppThrowsOutOfDate, sideVars, gpuVars >>

\* device->waitIdle() after the loop
mainLoopWaitIdle ==
    /\ At("mainLoop_waitIdle")
    /\ DeviceIdle
    /\ pc' = Tail(pc)
    /\ UNCHANGED << cpuVars, swapVars, envVars, gpuVars >>

\* cleanup: SDL_DestroyWindow, SDL_Quit
cleanup ==
    /\ At("cleanup")
    /\ pc' = Tail(pc)
    /\ UNCHANGED << cpuVars, swapVars, envVars, gpuVars >>

\* main: app.run() returned
mainReturn ==
    /\ At("return")
    /\ exitStatus' = "EXIT_SUCCESS"
    /\ pc' = << >>
    /\ UNCHANGED << exception, quitting, currentFrame, imagesInFlight, result,
                    df, swapVars, envVars, gpuVars >>

\* main: catch (const std::exception&) prints e.what()
mainCatch ==
    /\ At("catch")
    /\ exitStatus' = "EXIT_FAILURE"
    /\ pc' = << >>
    /\ UNCHANGED << exception, quitting, currentFrame, imagesInFlight, result,
                    df, swapVars, envVars, gpuVars >>

---------------------------------------------------------------------------
(* drawFrame *)

\* waitForFences on the current slot's fence
drawFrameWaitForFences ==
    /\ At("df_waitForFences")
    /\ FenceSignaled(currentFrame)
    /\ df' = Done([df EXCEPT !.waited = currentFrame],
                  << "waitForFences", currentFrame >>)
    /\ pc' = Tail(pc)
    /\ UNCHANGED << exitStatus, exception, quitting, currentFrame,
                    imagesInFlight, result, swapVars, envVars, gpuVars >>

AcquireResults == {"Success", "Suboptimal", "OutOfDate"}

\* acquireNextImageKHR: any image of the swapchain, or out-of-date, which
\* vulkan.hpp hands back as result.result or throws as vk::OutOfDateKHRError
drawFrameAcquire ==
    /\ At("df_acquireNextImage")
    /\ \E r \in AcquireResults :
          IF r = "OutOfDate"
          THEN IF hppThrowsOutOfDate
               THEN /\ Throw("OutOfDateKHRError", "acquireNextImageKHR")
                    /\ UNCHANGED << result, df >>
               ELSE /\ result' = [result |-> r, value |-> 0]
                    /\ df' = Done(df, << "acquireNextImage", 0 >>)
                    /\ pc' = Tail(pc)
                    /\ UNCHANGED exception
          ELSE /\ \E i \in 0 .. (swapchainImages - 1) :
                     /\ result' = [result |-> r, value |-> i]
                     /\ df' = Done(df, << "acquireNextImage", i >>)
               /\ pc' = Tail(pc)
               /\ UNCHANGED exception
    /\ UNCHANGED << exitStatus, quitting, currentFrame, imagesInFlight,
                    swapVars, envVars, gpuVars >>

\* if (result.result == eErrorOutOfDateKHR) { recreateSwapchain(); return; }
drawFrameCheckResult ==
    /\ At("df_checkResult")
    /\ pc' = IF result.result = "OutOfDate"
             THEN RecreateBody \o SkipTo(pc, "df_return")
             ELSE Tail(pc)
    /\ UNCHANGED << cpuVars, swapVars, envVars, gpuVars >>

\* the values a read of imagesInFlight[i] can yield: the element, or for an
\* index past the end whatever lies behind the vector's storage
ImagesInFlightRead(i) ==
    IF i < Len(imagesInFlight)
    THEN {imagesInFlight[i + 1]}
    ELSE {NoSlot} \cup Slots

\* if (imagesInFlight[value] != -1) waitForFences(inFlightFences[that slot])
drawFrameWaitImageFence ==
    /\ At("df_waitImageFence")
    /\ \E v \in ImagesInFlightRead(result.value) :
          v # NoSlot => FenceSignaled(v)
    /\ df' = Done(df, << "waitImageFence", result.value >>)
    /\ pc' = Tail(pc)
    /\ UNCHANGED << exitStatus, exception, quitting, currentFrame,
                    imagesInFlight, result, swapVars, envVars, gpuVars >>

\* imagesInFlight[value] = currentFrame; a write past the end lands outside
\* the vector
drawFrameClaimImage ==
    /\ At("df_claimImage")
    /\ imagesInFlight' =
           IF result.value < Len(imagesInFlight)
           THEN [imagesInFlight EXCEPT ![result.value + 1] = currentFrame]
           ELSE imagesInFlight
    /\ df' = Done(df, << "claimImage", result.value, currentFrame >>)
    /\ pc' = Tail(pc)
    /\ UNCHANGED << exitStatus, exception, quitting, currentFrame, result,
                    swapVars, envVars, gpuVars >>

\* an access past the end of imagesInFlight, or a wait on the fence a stray
\* value names, ends the process abnormally
drawFrameCrash ==
    /\ At("df_waitImageFence") \/ At("df_claimImage")
    /\ result.value >= Len(imagesInFlight)
    /\ pc' = << >>
    /\ exitStatus' = "crashed"
    /\ UNCHANGED << exception, quitting, currentFrame, imagesInFlight, result,
                    df, swapVars, envVars, gpuVars >>

\* device->resetFences on the current slot's fence
drawFrameResetFences ==
    /\ At("df_resetFences")
    /\ inFlightFences' = [inFlightFences EXCEPT ![currentFrame + 1] = FALSE]
    /\ df' = Done(df, << "resetFences", currentFrame >>)
    /\ pc' = Tail(pc)
    /\ UNCHANGED << exitStatus, exception, quitting, currentFrame,
                    imagesInFlight, result, swapVars, envVars, pending >>

\* updateUniformBuffer(result.value): the CPU writes uniform buffer value
drawFrameUpdateUniformBuffer ==
    /\ At("df_updateUniformBuffer")
    /\ df' = Done(df, << "updateUniformBuffer", result.value >>)
    /\ pc' = Tail(pc)
    /\ UNCHANGED << exitStatus, exception, quitting, currentFrame,
                    imagesInFlight, result, swapVars, envVars, gpuVars >>

\* graphicsQueue.submit(commandBuffers[value], inFlightFences[currentFrame])
drawFrameSubmit ==
    /\ At("df_submit")
    /\ pending' = [pending EXCEPT ![currentFrame] = @ \cup {result.value}]
    /\ df' = Done(df, << "submit", result.value, currentFrame >>)
    /\ pc' = Tail(pc)
    /\ UNCHANGED << exitStatus, exception, quitting, currentFrame,
                    imagesInFlight, result, swapVars, envVars, inFlightFences >>

PresentResults == {"Success", "Suboptimal", "OutOfDate"}

\* presentQueue.presentKHR(...): the value it returns is not looked at; an
\* out-of-date swapchain is returned or thrown as for acquisition
drawFramePresent ==
    /\ At("df_present")
    /\ \E r \in PresentResults :
          IF r = "OutOfDate" /\ hppThrowsOutOfDate
          THEN /\ Throw("OutOfDateKHRError", "presentKHR")
               /\ UNCHANGED df
          ELSE /\ df' = Done([df EXCEPT !.presented = r],
                            << "present", result.value >>)
               /\ pc' = Tail(pc)
               /\ UNCHANGED exception
    /\ UNCHANGED << exitStatus, quitting, currentFrame, imagesInFlight,
                    result, swapVars, envVars, gpuVars >>

NextFrameUnwrapped(frame) == frame + 1

\* the slot after a slot: (currentFrame + 1) % MAX_FRAMES_IN_FLIGHT
NextFrame(frame) == (frame + 1) % MAX_FRAMES_IN_FLIGHT

\* currentFrame = (currentFrame + 1) % MAX_FRAMES_IN_FLIGHT
drawFrameAdvance ==
    /\ At("df_advance")
    /\ currentFrame' = NextFrame(currentFrame)
    /\ df' = Done(df, << "advance" >>)
    /\ pc' = Tail(pc)
    /\ UNCHANGED << exitStatus, exception, quitting, imagesInFlight, result,
                    swapVars, envVars, gpuVars >>

\* drawFrame returns: its locals are gone
drawFrameReturn ==
    /\ At("df_return")
    /\ result' = NoResult
    /\ df' = NoFrame
    /\ pc' = Tail(pc)
    /\ UNCHANGED << exitStatus, exception, quitting, currentFrame,
                    imagesInFlight, swapVars, envVars, gpuVars >>


---------------------------------------------------------------------------
(* findMemoryType *)

MemoryPropertyFlagBits == {"eDeviceLocal", "eHostVisible"}

\* (propertyFlags & properties) != 0: some required flag is present
FlagsOverlap(propertyFlags, required) ==
    (propertyFlags \cap required) # {} \/ required = {}

\* (propertyFlags & properties) == properties
FlagsMatch(propertyFlags, required) ==
    (propertyFlags \cap required) = required

\* typeFilter & (1 << i)
FilterBit(filter, i) == (filter \div (2 ^ i)) % 2

\* the call: any device with up to MaxMemoryTypes memory types, any filter
\* over their bits, any required flags; the loop starts at i = 0
MemInit ==
    /\ AppQuiet
    /\ MipIdle
    /\ UpIdle
    /\ PickIdle
    /\ SemIdle
    /\ \E n \in 0 .. MaxMemoryTypes :
           memProperties \in [1 .. n -> SUBSET MemoryPropertyFlagBits]
    /\ typeFilter \in 0 .. (2 ^ MaxMemoryTypes) - 1
    /\ properties \in SUBSET MemoryPropertyFlagBits
    /\ fmIndex = 0
    /\ fmReturn = [status |-> "running", index |-> 0]

InLoop == fmReturn.status = "running" /\ fmIndex < Len(memProperties)

\* the if inside the loop holds: return i
findMemoryTypeReturn ==
    /\ InLoop
    /\ FilterBit(typeFilter, fmIndex) # 0
    /\ FlagsMatch(memProperties[fmIndex + 1], properties)
    /\ fmReturn' = [status |-> "returned", index |-> fmIndex]
    /\ UNCHANGED << memProperties, typeFilter, properties, fmIndex, memRest >>

\* the if does not hold: i++
findMemoryTypeContinue ==
    /\ InLoop
    /\ ~(/\ FilterBit(typeFilter, fmIndex) # 0
         /\ FlagsMatch(memProperties[fmIndex + 1], properties))
    /\ fmIndex' = fmIndex + 1
    /\ UNCHANGED << memProperties, typeFilter, properties, fmReturn, memRest >>

\* the loop has ended: throw std::runtime_error
findMemoryTypeThrow ==
    /\ fmReturn.status = "running"
    /\ fmIndex >= Len(memProperties)
    /\ fmReturn' = [status |-> "thrown", index |-> 0]
    /\ UNCHANGED << memProperties, typeFilter, properties, fmIndex, memRest >>

MemNext ==
    \/ findMemoryTypeReturn
    \/ findMemoryTypeContinue
    \/ findMemoryTypeThrow

MemSpec == MemInit /\ [][MemNext]_vars

---------------------------------------------------------------------------
(* createTextureImage and generateMipmaps *)

\* the sizes of the texture: the small ones and the 256 x 256 of the
\* reference scene
TextureSizes == (1 .. MaxTextureSize) \cup {256}

RECURSIVE FloorLog2(_)
\* std::floor(std::log2(n)) for an int n >= 1
FloorLog2(n) == IF n < 2 THEN 0 ELSE 1 + FloorLog2(n \div 2)

\* mipLevels = static_cast<uint32_t>(floor(log2(max(w, h)))) + 1
MipLevelsFor(w, h) == (FloorLog2(Max(w, h)) + 1) % (UINT32_MAX + 1)

\* d / 2 without the test d > 1
HalfUnguarded(d) == d \div 2

\* d > 1 ? d / 2 : 1
HalfOrOne(d) == IF d > 1 THEN d \div 2 ELSE 1

\* a blit that reads the level it writes
BlitSourceSameLevel(i) == i

\* blit.srcSubresource.mipLevel = i - 1
BlitSourceLevel(i) == i - 1

\* the loop's second barrier leaving the level in transfer-source layout
LayoutAfterBlitUnchanged == "eTransferSrcOptimal"

\* the loop's second barrier: barrier.newLayout after the blit
LayoutAfterBlit == "eShaderReadOnlyOptimal"

\* pipelineBarrier(barrier) on one mip level, recorded with the layout the
\* level is in when the barrier executes
Barrier(level, oldLayout, newLayout) ==
    [op |-> "pipelineBarrier", level |-> level, oldLayout |-> oldLayout,
     newLayout |-> newLayout, was |-> levelLayout[level + 1]]

\* the call: a texture of any size has been loaded
MipInit ==
    /\ AppQuiet
    /\ MemIdle
    /\ UpIdle
    /\ PickIdle
    /\ SemIdle
    /\ texWidth \in TextureSizes
    /\ texHeight \in TextureSizes
    /\ linearBlit \in BOOLEAN
    /\ mipLevels = 0
    /\ mipWidth = 0
    /\ mipHeight = 0
    /\ mipI = 0
    /\ levelLayout = << >>
    /\ levelData = << >>
    /\ recorded = << >>
    /\ mipPc = "createImage"

\* mipLevels is computed; createImage makes an image of mipLevels levels
createTextureImageCreate ==
    /\ mipPc = "createImage"
    /\ mipLevels' = MipLevelsFor(texWidth, texHeight)
    /\ levelLayout' = [l \in 1 .. mipLevels' |-> "eUndefined"]
    /\ levelData' = [l \in 1 .. mipLevels' |-> FALSE]
    /\ mipPc' = "transitionImageLayout"
    /\ UNCHANGED << texWidth, texHeight, linearBlit, mipWidth, mipHeight,
                    mipI, recorded, mipRest >>

\* transitionImageLayout(eUndefined -> eTransferDstOptimal) over all levels
createTextureImageTransition ==
    /\ mipPc = "transitionImageLayout"
    /\ levelLayout' = [l \in 1 .. mipLevels |-> "eTransferDstOptimal"]
    /\ mipPc' = "copyBufferToImage"
    /\ UNCHANGED << texWidth, texHeight, linearBlit, mipLevels, mipWidth,
                    mipHeight, mipI, levelData, recorded, mipRest >>

\* copyBufferToImage: the pixels go into mip level 0
createTextureImageCopy ==
    /\ mipPc = "copyBufferToImage"
    /\ levelData' = [levelData EXCEPT ![1] = TRUE]
    /\ mipPc' = "generateMipmaps"
    /\ UNCHANGED << texWidth, texHeight, linearBlit, mipLevels, mipWidth,
                    mipHeight, mipI, levelLayout, recorded, mipRest >>

\* generateMipmaps up to the loop: the format test, mipWidth, mipHeight, i = 1
generateMipmapsBegin ==
    /\ mipPc = "generateMipmaps"
    /\ IF linearBlit
       THEN /\ mipWidth' = texWidth
            /\ mipHeight' = texHeight
            /\ mipI' = 1
            /\ mipPc' = "loop"
       ELSE /\ mipPc' = "thrown"
            /\ UNCHANGED << mipWidth, mipHeight, mipI >>
    /\ UNCHANGED << texWidth, texHeight, linearBlit, mipLevels, levelLayout,
                    levelData, recorded, mipRest >>

\* i < mipLevels
generateMipmapsLoop ==
    /\ mipPc = "loop"
    /\ mipPc' = IF mipI < mipLevels THEN "barrierToSrc" ELSE "barrierLast"
    /\ UNCHANGED << texWidth, texHeight, linearBlit, mipLevels, mipWidth,
                    mipHeight, mipI, levelLayout, levelData, recorded,
                    mipRest >>

\* the loop's first barrier: level i - 1 from transfer-dst to transfer-src
generateMipmapsBarrierToSrc ==
    /\ mipPc = "barrierToSrc"
    /\ recorded' = Append(recorded,
           Barrier(mipI - 1, "eTransferDstOptimal", "eTransferSrcOptimal"))
    /\ levelLayout' = [levelLayout EXCEPT ![mipI] = "eTransferSrcOptimal"]
    /\ mipPc' = "blitImage"
    /\ UNCHANGED << texWidth, texHeight, linearBlit, mipLevels, mipWidth,
                    mipHeight, mipI, levelData, mipRest >>

\* blitImage from level i - 1 to level i
generateMipmapsBlit ==
    /\ mipPc = "blitImage"
    /\ recorded' = Append(recorded,
           [op |-> "blitImage",
            srcLevel |-> BlitSourceLevel(mipI),
            dstLevel |-> mipI,
            srcExtent |-> Extent(mipWidth, mipHeight),
            dstExtent |-> Extent(HalfOrOne(mipWidth), HalfOrOne(mipHeight)),
            srcWas |-> levelLayout[BlitSourceLevel(mipI) + 1],
            dstWas |-> levelLayout[mipI + 1],
            srcData |-> levelData[BlitSourceLevel(mipI) + 1]])
    /\ levelData' = [levelData EXCEPT ![mipI + 1] = TRUE]
    /\ mipPc' = "barrierToRead"
    /\ UNCHANGED << texWidth, texHeight, linearBlit, mipLevels, mipWidth,
                    mipHeight, mipI, levelLayout, mipRest >>

\* the loop's second barrier on level i - 1, then the halving and i++
generateMipmapsBarrierToRead ==
    /\ mipPc = "barrierToRead"
    /\ recorded' = Append(recorded,
           Barrier(mipI - 1, "eTransferSrcOptimal", LayoutAfterBlit))
    /\ levelLayout' = [levelLayout EXCEPT ![mipI] = LayoutAfterBlit]
    /\ mipWidth' = IF mipWidth > 1 THEN mipWidth \div 2 ELSE mipWidth
    /\ mipHeight' = IF mipHeight > 1 THEN mipHeight \div 2 ELSE mipHeight
    /\ mipI' = mipI + 1
    /\ mipPc' = "loop"
    /\ UNCHANGED << texWidth, texHeight, linearBlit, mipLevels, levelData,
                    mipRest >>

\* after the loop: level mipLevels - 1 from transfer-dst to shader-read-only
generateMipmapsBarrierLast ==
    /\ mipPc = "barrierLast"
    /\ recorded' = Append(recorded,
           Barrier(mipLevels - 1, "eTransferDstOptimal",
                   "eShaderReadOnlyOptimal"))
    /\ levelLayout' =
           [levelLayout EXCEPT ![mipLevels] = "eShaderReadOnlyOptimal"]
    /\ mipPc' = "endSingleTimeCommands"
    /\ UNCHANGED << texWidth, texHeight, linearBlit, mipLevels, mipWidth,
                    mipHeight, mipI, levelData, mipRest >>

\* endSingleTimeCommands: the recorded commands have run
generateMipmapsEnd ==
    /\ mipPc = "endSingleTimeCommands"
    /\ mipPc' = "done"
    /\ UNCHANGED << texWidth, texHeight, linearBlit, mipLevels, mipWidth,
                    mipHeight, mipI, levelLayout, levelData, recorded,
                    mipRest >>

MipNext ==
    \/ createTextureImageCreate
    \/ createTextureImageTransition
    \/ createTextureImageCopy
    \/ generateMipmapsBegin
    \/ generateMipmapsLoop
    \/ generateMipmapsBarrierToSrc
    \/ generateMipmapsBlit
    \/ generateMipmapsBarrierToRead
    \/ generateMipmapsBarrierLast
    \/ generateMipmapsEnd

MipSpec == MipInit /\ [][MipNext]_vars

---------------------------------------------------------------------------
(* The staging uploads: createTextureImage, createVertexBuffer,
   createIndexBuffer, with beginSingleTimeCommands/endSingleTimeCommands *)

Bytes == {"a", "b"}

\* a byte of memory nothing has written yet
Indeterminate == "?"

HostBuffers == UNION {[1 .. n -> Bytes] : n \in 0 .. MaxHostBytes}

\* the pixels stbi_load returns
Pixels == << "b", "a" >>

\* the bytes the upload function fn copies from: pixels, vertices.data(),
\* indices.data()
HostDataOf(fn) ==
    CASE fn = "createTextureImage" -> Pixels
      [] fn = "createVertexBuffer" -> hostVertices
      [] fn = "createIndexBuffer" -> hostIndices

\* imageSize, bufferSize: the number of bytes of the host data
SizeOf(fn) == Len(HostDataOf(fn))

\* the device-local resource fn creates and fills
DestinationOf(fn) ==
    CASE fn = "createTextureImage" -> "textureImage"
      [] fn = "createVertexBuffer" -> "vertexBuffer"
      [] fn = "createIndexBuffer" -> "indexBuffer"

\* the one-shot command buffers fn records, in order
OneShotsOf(fn) ==
    IF fn = "createTextureImage"
    THEN << "transitionImageLayout", "copyBufferToImage", "generateMipmaps" >>
    ELSE << "copyBuffer" >>

Stmt(fn, at, op) == [fn |-> fn, at |-> at, op |-> op]

\* beginSingleTimeCommands and the recording, then endSingleTimeCommands'
\* submit and waitIdle
OneShotBody(fn, op) ==
    << Stmt(fn, "record", op), Stmt(fn, "submit", op), Stmt(fn, "waitIdle", op) >>

RECURSIVE OneShotBodies(_, _)
OneShotBodies(fn, ops) ==
    IF ops = << >>
    THEN << >>
    ELSE OneShotBody(fn, Head(ops)) \o OneShotBodies(fn, Tail(ops))

\* an upload function: staging buffer, memcpy, the device-local resource,
\* the one-shot command buffers, and the return that ends the locals
UploadBody(fn) ==
    << Stmt(fn, "createStaging", "none"), Stmt(fn, "memcpy", "none"),
       Stmt(fn, "createDestination", "none") >>
        \o OneShotBodies(fn, OneShotsOf(fn))
        \o << Stmt(fn, "return", "none") >>

UpAt(at) == upPc # << >> /\ Head(upPc).at = at

\* memory as created: n bytes nothing has written
Fresh(n) == [i \in 1 .. n |-> Indeterminate]

\* memcpy(dst, src, n)
Memcpy(dst, src, n) ==
    [i \in 1 .. Len(dst) |-> IF i <= n THEN src[i] ELSE dst[i]]

\* a copy region that is one byte short
CopyRegionShort(dst, src, srcOffset, dstOffset, size) ==
    [i \in 1 .. Len(dst) |->
        IF i > dstOffset /\ i < dstOffset + size
        THEN src[i - dstOffset + srcOffset]
        ELSE dst[i]]

\* vkCmdCopyBuffer with BufferCopy(srcOffset, dstOffset, size)
CopyRegion(dst, src, srcOffset, dstOffset, size) ==
    [i \in 1 .. Len(dst) |->
        IF i > dstOffset /\ i <= dstOffset + size
        THEN src[i - dstOffset + srcOffset]
        ELSE dst[i]]

\* the call: initVulkan reaches the uploads with any vertex and index data
UpInit ==
    /\ AppQuiet
    /\ MemIdle
    /\ MipIdle
    /\ PickIdle
    /\ SemIdle
    /\ upPc = UploadBody("createTextureImage")
                  \o UploadBody("createVertexBuffer")
                  \o UploadBody("createIndexBuffer")
    /\ hostVertices \in HostBuffers
    /\ hostIndices \in HostBuffers
    /\ stagingBuffer = NoBuffer
    /\ deviceLocal = [r \in DeviceLocalNames |-> << >>]
    /\ oneShot = NoCommand
    /\ submitted = << >>
    /\ uploaded = {}

\* createBuffer(size, eTransferSrc, host-visible): the staging buffer
uploadCreateStaging ==
    /\ UpAt("createStaging")
    /\ stagingBuffer' = [alive |-> TRUE, bytes |-> Fresh(SizeOf(Head(upPc).fn))]
    /\ upPc' = Tail(upPc)
    /\ UNCHANGED << hostVertices, hostIndices, deviceLocal, oneShot, submitted,
                    uploaded, upRest >>

\* createBuffer of zero bytes is not valid: the driver may refuse it, and
\* the exception ends the uploads
uploadCreateStagingFails ==
    /\ UpAt("createStaging")
    /\ SizeOf(Head(upPc).fn) = 0
    /\ upPc' = << >>
    /\ UNCHANGED << hostVertices, hostIndices, stagingBuffer, deviceLocal,
                    oneShot, submitted, uploaded, upRest >>

\* mapMemory, memcpy(data, host, size), unmapMemory
uploadMemcpy ==
    /\ UpAt("memcpy")
    /\ stagingBuffer' =
           [stagingBuffer EXCEPT
               !.bytes = Memcpy(@, HostDataOf(Head(upPc).fn),
                                SizeOf(Head(upPc).fn))]
    /\ upPc' = Tail(upPc)
    /\ UNCHANGED << hostVertices, hostIndices, deviceLocal, oneShot, submitted,
                    uploaded, upRest >>

\* createBuffer / createImage in device-local memory
uploadCreateDestination ==
    /\ UpAt("createDestination")
    /\ deviceLocal' =
           [deviceLocal EXCEPT
               ![DestinationOf(Head(upPc).fn)] = Fresh(SizeOf(Head(upPc).fn))]
    /\ upPc' = Tail(upPc)
    /\ UNCHANGED << hostVertices, hostIndices, stagingBuffer, oneShot,
                    submitted, uploaded, upRest >>

\* beginSingleTimeCommands and the command recorded into the buffer: the two
\* copies read the staging buffer
uploadRecord ==
    /\ UpAt("record")
    /\ oneShot' =
           IF Head(upPc).op \in {"copyBuffer", "copyBufferToImage"}
           THEN [op |-> Head(upPc).op, src |-> "stagingBuffer",
                 dst |-> DestinationOf(Head(upPc).fn),
                 size |-> SizeOf(Head(upPc).fn)]
           ELSE [op |-> Head(upPc).op, src |-> "none",
                 dst |-> DestinationOf(Head(upPc).fn), size |-> 0]
    /\ upPc' = Tail(upPc)
    /\ UNCHANGED << hostVertices, hostIndices, stagingBuffer, deviceLocal,
                    submitted, uploaded, upRest >>

\* endSingleTimeCommands: end(), graphicsQueue.submit(submitInfo, nullptr)
endSingleTimeCommandsSubmit ==
    /\ UpAt("submit")
    /\ submitted' = Append(submitted, oneShot)
    /\ upPc' = Tail(upPc)
    /\ UNCHANGED << hostVertices, hostIndices, stagingBuffer, deviceLocal,
                    oneShot, uploaded, upRest >>

\* the bytes a copy reads from the staging buffer: what it holds, or
\* anything if it has been destroyed
StagingRead(size) ==
    IF stagingBuffer.alive
    THEN {stagingBuffer.bytes}
    ELSE [1 .. size -> Bytes \cup {Indeterminate}]

\* the queue executes the oldest submitted one-shot command buffer
GpuRunOneShot ==
    /\ submitted # << >>
    /\ submitted' = Tail(submitted)
    /\ IF Head(submitted).src = "stagingBuffer"
       THEN \E read \in StagingRead(Head(submitted).size) :
                deviceLocal' =
                    [deviceLocal EXCEPT
                        ![Head(submitted).dst] =
                            CopyRegion(@, read, 0, 0, Head(submitted).size)]
       ELSE UNCHANGED deviceLocal
    /\ UNCHANGED << upPc, hostVertices, hostIndices, stagingBuffer, oneShot,
                    uploaded, upRest >>

\* a waitIdle that returns while the queue is still busy
QueueIdleNotAwaited == TRUE

\* graphicsQueue.waitIdle() returns: the queue has finished everything
QueueIdle == submitted = << >>

\* endSingleTimeCommands: graphicsQueue.waitIdle()
endSingleTimeCommandsWaitIdle ==
    /\ UpAt("waitIdle")
    /\ QueueIdle
    /\ upPc' = Tail(upPc)
    /\ UNCHANGED << hostVertices, hostIndices, stagingBuffer, deviceLocal,
                    oneShot, submitted, uploaded, upRest >>

\* the upload function returns: stagingBuffer and stagingBufferMemory, its
\* locals, are destroyed
uploadReturn ==
    /\ UpAt("return")
    /\ stagingBuffer' = NoBuffer
    /\ oneShot' = NoCommand
    /\ uploaded' = uploaded \cup {Head(upPc).fn}
    /\ upPc' = Tail(upPc)
    /\ UNCHANGED << hostVertices, hostIndices, deviceLocal, submitted,
                    upRest >>

UpNext ==
    \/ uploadCreateStaging
    \/ uploadCreateStagingFails
    \/ uploadMemcpy
    \/ uploadCreateDestination
    \/ uploadRecord
    \/ endSingleTimeCommandsSubmit
    \/ GpuRunOneShot
    \/ endSingleTimeCommandsWaitIdle
    \/ uploadReturn

UpSpec == UpInit /\ [][UpNext]_vars

---------------------------------------------------------------------------
(* pickPhysicalDevice, isDeviceSuitable, findQueueFamilies *)

\* deviceExtensions
RequiredExtensions == {"VK_KHR_swapchain"}

DeviceExtensionNames == {"VK_KHR_swapchain", "VK_KHR_maintenance1"}

QueueFamilyLists ==
    UNION {[1 .. n -> [graphics : BOOLEAN, present : BOOLEAN]] :
               n \in 0 .. MaxQueueFamilies}

\* what a GPU can report: its queue families (graphics flag, support for
\* presenting to the surface), its extensions, the numbers of surface
\* formats and present modes, the anisotropy feature
DeviceProperties ==
    [queueFamilies : QueueFamilyLists,
     extensions : SUBSET DeviceExtensionNames,
     formats : 0 .. 1,
     presentModes : 0 .. 1,
     samplerAnisotropy : BOOLEAN]

Family(i) == [has |-> TRUE, value |-> i]

\* a QueueFamilyIndices that is complete as soon as it has a graphics family
IsCompleteGraphicsOnly(indices) == indices.graphicsFamily.has

\* QueueFamilyIndices::isComplete
isComplete(indices) ==
    indices.graphicsFamily.has /\ indices.presentFamily.has

RECURSIVE FindQueueFamiliesFrom(_, _, _)
\* findQueueFamilies' loop from family i on (i counts from 0), with the
\* indices found so far; the loop ends as soon as they are complete
FindQueueFamiliesFrom(families, i, indices) ==
    IF i >= Len(families)
    THEN indices
    ELSE LET withGraphics ==
                 IF families[i + 1].graphics
                 THEN [indices EXCEPT !.graphicsFamily = Family(i)]
                 ELSE indices
             withPresent ==
                 IF families[i + 1].present
                 THEN [withGraphics EXCEPT !.presentFamily = Family(i)]
                 ELSE withGraphics
         IN  IF isComplete(withPresent)
             THEN withPresent
             ELSE FindQueueFamiliesFrom(families, i + 1, withPresent)

findQueueFamilies(device) ==
    FindQueueFamiliesFrom(device.queueFamilies, 0, NoIndices)

\* every required extension is erased from the set by an available one
checkDeviceExtensionSupport(device) ==
    RequiredExtensions \ device.extensions = {}

isDeviceSuitable(device) ==
    LET indices == findQueueFamilies(device)
        swapchainAdequate ==
            IF checkDeviceExtensionSupport(device)
            THEN device.formats # 0 /\ device.presentModes # 0
            ELSE FALSE
    IN  isComplete(indices) /\ swapchainAdequate /\ device.samplerAnisotropy

\* the call: the instance has any number of GPUs
PickInit ==
    /\ AppQuiet
    /\ MemIdle
    /\ MipIdle
    /\ UpIdle
    /\ SemIdle
    /\ deviceCount \in 0 .. MaxDevices
    /\ pickI = 0
    /\ candidate = NoDevice
    /\ physicalDevice = 0
    /\ queueIndices = NoIndices
    /\ pickPc = "enumeratePhysicalDevices"

\* enumeratePhysicalDevices; no GPU at all throws
pickEnumerate ==
    /\ pickPc = "enumeratePhysicalDevices"
    /\ IF deviceCount = 0
       THEN pickPc' = "thrown" /\ UNCHANGED pickI
       ELSE pickPc' = "loop" /\ pickI' = 1
    /\ UNCHANGED << deviceCount, candidate, physicalDevice, queueIndices,
                    pickRest >>

\* the loop takes the next device: isDeviceSuitable asks it for its queue
\* families, extensions, surface support and features
pickExamine ==
    /\ pickPc = "loop"
    /\ pickI <= deviceCount
    /\ candidate' \in DeviceProperties
    /\ pickPc' = "isDeviceSuitable"
    /\ UNCHANGED << deviceCount, pickI, physicalDevice, queueIndices,
                    pickRest >>

\* the loop's device is suitable: physicalDevice = device; break
pickSelect ==
    /\ pickPc = "isDeviceSuitable"
    /\ isDeviceSuitable(candidate)
    /\ physicalDevice' = pickI
    /\ pickPc' = "found"
    /\ UNCHANGED << deviceCount, pickI, candidate, queueIndices, pickRest >>

\* the loop's device is not suitable: on to the next
pickReject ==
    /\ pickPc = "isDeviceSuitable"
    /\ ~isDeviceSuitable(candidate)
    /\ pickI' = pickI + 1
    /\ candidate' = NoDevice
    /\ pickPc' = "loop"
    /\ UNCHANGED << deviceCount, physicalDevice, queueIndices, pickRest >>

\* the loop is over and deviceFound is false: throw
pickNotFound ==
    /\ pickPc = "loop"
    /\ pickI > deviceCount
    /\ pickPc' = "thrown"
    /\ UNCHANGED << deviceCount, pickI, candidate, physicalDevice,
                    queueIndices, pickRest >>

\* createLogicalDevice: indices = findQueueFamilies(physicalDevice)
createLogicalDevice ==
    /\ pickPc = "found"
    /\ queueIndices' = findQueueFamilies(candidate)
    /\ pickPc' = "createLogicalDevice"
    /\ UNCHANGED << deviceCount, pickI, candidate, physicalDevice, pickRest >>

PickNext ==
    \/ pickEnumerate
    \/ pickExamine
    \/ pickSelect
    \/ pickReject
    \/ pickNotFound
    \/ createLogicalDevice

PickSpec == PickInit /\ [][PickNext]_vars

---------------------------------------------------------------------------
(* The program *)

CpuStep ==
    \/ \E fn \in SceneFunctions : loadScene(fn)
    \/ fatalError
    \/ createSwapchain
    \/ \E fn \in CreateFunctions : createHandle(fn)
    \/ createImageViews
    \/ createFramebuffers
    \/ createUniformBuffers
    \/ createDescriptorSets
    \/ createCommandBuffers
    \/ createSyncObjects
    \/ recreateWaitIdle
    \/ recreateClear
    \/ recreateReturn
    \/ mainLoopTest
    \/ pollNoEvent
    \/ pollQuit
    \/ pollResized
    \/ mainLoopWaitIdle
    \/ cleanup
    \/ mainReturn
    \/ mainCatch
    \/ drawFrameWaitForFences
    \/ drawFrameAcquire
    \/ drawFrameCheckResult
    \/ drawFrameWaitImageFence
    \/ drawFrameClaimImage
    \/ drawFrameCrash
    \/ drawFrameResetFences
    \/ drawFrameUpdateUniformBuffer
    \/ drawFrameSubmit
    \/ drawFramePresent
    \/ drawFrameAdvance
    \/ drawFrameReturn

GpuStep == \E s \in Slots : GpuComplete(s)

Next == CpuStep \/ GpuStep

Spec == Init /\ [][Next]_vars

\* the CPU thread keeps running and the GPU finishes what it was given
FairSpec == Spec /\ WF_vars(CpuStep) /\ WF_vars(GpuStep)

\* the GPU finishes what it was given, and a waitForFences whose fence is
\* signaled returns
WaitSpec ==
    /\ Spec
    /\ WF_vars(GpuStep)
    /\ WF_vars(drawFrameWaitForFences)
    /\ WF_vars(drawFrameWaitImageFence)

TypeOK ==
    /\ quitting \in BOOLEAN
    /\ currentFrame \in Slots
    /\ swapchainImages \in 0 .. MaxImages
    /\ \A s \in Slots : pending[s] \subseteq 0 .. (MaxImages - 1)
    /\ \A i \in DOMAIN imagesInFlight : imagesInFlight[i] \in Slots \cup {NoSlot}

---------------------------------------------------------------------------
(* Properties of the frame loop *)

SyncObjectsCreated == Len(inFlightFences) = MAX_FRAMES_IN_FLIGHT

Unsignaled(s) == SyncObjectsCreated /\ ~inFlightFences[s + 1]

\* C1: no two frame slots have an unsignaled fence at the same time while
\* their outstanding submissions target the same swapchain image
C1_ImageInFlightInvariant ==
    \A s \in Slots : \A t \in Slots :
        s # t => ~(/\ Unsignaled(s)
                   /\ Unsignaled(t)
                   /\ pending[s] \cap pending[t] # {})

\* the same, for the images imagesInFlight has an entry for
ImageInFlightWithinBounds ==
    \A s \in Slots : \A t \in Slots :
        s # t => ~(/\ Unsignaled(s)
                   /\ Unsignaled(t)
                   /\ \E i \in pending[s] \cap pending[t] :
                         i < Len(imagesInFlight))

\* C2: when drawFrame resets a slot's fence and submits through the slot,
\* the slot's previous submission is complete and this drawFrame's wait has
\* seen the slot's fence signaled
C2_FenceDiscipline ==
    (At("df_resetFences") \/ At("df_updateUniformBuffer") \/ At("df_submit"))
        => /\ pending[currentFrame] = {}
           /\ df.waited = currentFrame
           /\ At("df_resetFences") => inFlightFences[currentFrame + 1]

\* slot 0 is about to be submitted through again: slot 1, which is only used
\* after slot 0, still has its batch running
C2_SecondSubmission ==
    /\ At("df_submit")
    /\ currentFrame = 0
    /\ pending[1] # {}

AcquireReportedOutOfDate ==
    \/ result.result = "OutOfDate"
    \/ exception = [what |-> "OutOfDateKHRError", from |-> "acquireNextImageKHR"]

\* C3: once acquisition has reported out-of-date, drawFrame does nothing
\* but run recreateSwapchain and return: no submit, no present
C3_OutOfDateAcquireRecreates ==
    AcquireReportedOutOfDate
        => (At("df_checkResult") \/ InRecreate \/ At("df_return"))

StalePresent == df.presented \in {"Suboptimal", "OutOfDate"}

\* C4: after a present that reports out-of-date or suboptimal,
\* recreateSwapchain is eventually invoked (unless the program ends first)
C4_StalePresentLeadsToRecreate == StalePresent ~> (InRecreate \/ Terminated)

\* C5: swapchain staleness never reaches main's catch clause and never ends
\* the frame loop
C5_StalenessNeverSurfaces ==
    /\ exception.what # "OutOfDateKHRError"
    /\ (exitStatus = "EXIT_FAILURE" /\ ~quitting)
           => exception.what = "SystemError"

\* the statement the running recreateSwapchain returns to
RecreateReturnsTo == SkipTo(pc, "rc_return")[2]

\* C6: recreateSwapchain is never entered by a frame that has reset its
\* fence and not yet submitted and presented; when it is entered every
\* unsignaled fence already has its submission on the queue, and while it
\* replaces or releases resources no submission is incomplete and every
\* frame-slot fence is signaled
C6_RecreateOnlyWhenIdle ==
    InRecreate =>
        /\ RecreateReturnsTo \notin
               {"df_updateUniformBuffer", "df_submit", "df_present", "df_advance"}
        /\ \A s \in Slots :
              IF At("rc_waitIdle")
              THEN inFlightFences[s + 1] \/ pending[s] # {}
              ELSE inFlightFences[s + 1] /\ pending[s] = {}

\* recreateSwapchain, called by drawFrame after frames have been submitted,
\* is replacing the swapchain
C6_RecreateFromDrawFrame ==
    /\ InRecreate
    /\ At("createSwapchain")
    /\ result.result = "OutOfDate"
    /\ \E i \in DOMAIN imagesInFlight : imagesInFlight[i] # NoSlot

CreateLabels ==
    {"createSwapchain", "createImageViews", "createFramebuffers",
     "createUniformBuffers", "createDescriptorSets", "createCommandBuffers"}
        \cup CreateFunctions

\* an object made for the swapchain that recreateSwapchain replaces exists
PreviousGenerationAlive ==
    IF At("createSwapchain")
    THEN \/ \E k \in HandleKinds : handles[k] # "Null"
         \/ \E k \in ArrayKinds : arrays[k] # << >>
    ELSE \/ \E k \in HandleKinds : handles[k] = "Old"
         \/ \E k \in ArrayKinds : \E i \in DOMAIN arrays[k] : arrays[k][i] = "Old"

\* C7: whenever recreateSwapchain creates an object, every object of the
\* previous swapchain (the swapchain itself included) has been released
C7_ReleaseBeforeCreate ==
    (InRecreate /\ pc # << >> /\ Head(pc) \in CreateLabels)
        => ~PreviousGenerationAlive

InitVulkanDone == ~Has("createSyncObjects")

\* initVulkan or recreateSwapchain was left through an exception before it
\* had rebuilt everything
RebuildAborted ==
    /\ exception.what = "SystemError"
    /\ exception.from \notin {"mainLoop", "drawFrame"}

\* C8: after initVulkan and after every completed recreateSwapchain each
\* per-image vector has one element per swapchain image, every element
\* made for the current swapchain
C8_WholesaleRebuild ==
    (InitVulkanDone /\ ~InRecreate /\ ~RebuildAborted) =>
        \A k \in ArrayKinds :
            /\ Len(arrays[k]) = swapchainImages
            /\ \A i \in DOMAIN arrays[k] : arrays[k][i] = "Cur"

\* recreateSwapchain has just completed inside drawFrame, and the swapchain
\* has another number of images than the one initVulkan built
C8_AfterRecreate ==
    /\ At("df_return")
    /\ result.result = "OutOfDate"
    /\ swapchainImages # Len(imagesInFlight)

Environment == [surface |-> surface, window |-> window]

\* C9: a recreateSwapchain that finds the surface and the window as they
\* were when the swapchain it replaces was created yields the same extent,
\* image format and requested image count
C9_RecreateIdempotent ==
    [][(InRecreate /\ At("createSwapchain") /\ createdFor = Environment)
          => /\ swapchainExtent' = swapchainExtent
             /\ swapchainImageFormat' = swapchainImageFormat
             /\ imageCount' = imageCount]_vars

\* recreateSwapchain, called with no resize since the swapchain was created,
\* has created the new swapchain; the extent came from the window's size
C9_RecreatedUnchanged ==
    /\ InRecreate
    /\ At("createImageViews")
    /\ result.result = "OutOfDate"
    /\ surface = SurfaceFree
    /\ swapchainExtent = chooseSwapExtent(surface, window)

\* memory type j has its bit in the filter and all the required flags
SuitableType(j) ==
    /\ \E q \in 0 .. (2 ^ MaxMemoryTypes) - 1 :
           typeFilter = (2 * q + 1) * (2 ^ j) + (typeFilter % (2 ^ j))
    /\ properties \subseteq memProperties[j + 1]

SuitableTypes == {j \in 0 .. Len(memProperties) - 1 : SuitableType(j)}

\* C10: findMemoryType returns an index only if it is the lowest memory
\* type whose bit is in the filter and whose flags include all the required
\* ones, and it throws only if there is no such type
C10_LowestSuitableOrError ==
    /\ fmReturn.status = "returned" =>
           /\ fmReturn.index \in SuitableTypes
           /\ \A j \in SuitableTypes : fmReturn.index <= j
    /\ fmReturn.status = "thrown" => SuitableTypes = {}

\* findMemoryType has returned an index after passing over a type that is
\* in the filter and has one of two required flags
C10_ReturnedAfterSkipping ==
    /\ fmReturn.status = "returned"
    /\ fmReturn.index > 0
    /\ FilterBit(typeFilter, 0) = 1
    /\ properties = MemoryPropertyFlagBits
    /\ memProperties[1] # {}

---------------------------------------------------------------------------
(* Properties of mipmap generation *)

MipLevelSet == 0 .. mipLevels - 1

\* the recorded command c reads, writes or transitions mip level l
Touches(c, l) ==
    IF c.op = "blitImage"
    THEN c.srcLevel = l \/ c.dstLevel = l
    ELSE c.level = l

IsBlit(c) == c.op = "blitImage"

\* the blits in the order generateMipmaps recorded them
Blits == SelectSeq(recorded, IsBlit)

\* C11: after generateMipmaps every mip level is in shader-read-only
\* layout, and no command recorded after a level's transition to
\* shader-read-only reads, writes or transitions that level
C11_MipmapEndState ==
    /\ mipPc = "done" =>
           \A l \in MipLevelSet : levelLayout[l + 1] = "eShaderReadOnlyOptimal"
    /\ \A k \in DOMAIN recorded :
           (/\ recorded[k].op = "pipelineBarrier"
            /\ recorded[k].newLayout = "eShaderReadOnlyOptimal")
               => \A j \in DOMAIN recorded :
                      j > k => ~Touches(recorded[j], recorded[k].level)

\* generateMipmaps has finished on a 1 x 1 texture: one level, the loop body
\* never ran and the only command is the final barrier
C11_SingleLevelDone ==
    /\ mipPc = "done"
    /\ mipLevels = 1
    /\ Len(recorded) = 1

\* C12: the blits are recorded for destination levels 1, 2, ... in this
\* order, each from the level below, which is then in transfer-source layout
\* and holds data, to a level in transfer-destination layout; a finished
\* generateMipmaps has recorded one blit for every level above 0
C12_LevelByLevel ==
    /\ \A k \in DOMAIN Blits :
           /\ Blits[k].dstLevel = k
           /\ Blits[k].srcLevel = k - 1
           /\ Blits[k].srcWas = "eTransferSrcOptimal"
           /\ Blits[k].srcData
           /\ Blits[k].dstWas = "eTransferDstOptimal"
    /\ mipPc = "done" => Len(Blits) = mipLevels - 1

\* generateMipmaps has finished after blits into several levels
C12_ChainDone ==
    /\ mipPc = "done"
    /\ Len(Blits) >= 3

\* max(1, d >> i)
LevelSize(d, i) == Max(1, d \div (2 ^ i))

\* C13: the blit into level i reads (max(1, W>>(i-1)), max(1, H>>(i-1)))
\* and writes (max(1, W>>i), max(1, H>>i)); mipLevels is
\* floor(log2(max(W, H))) + 1, which makes the last level 1 x 1 and gives
\* 9 levels for 256 x 256
C13_MipChainDimensions ==
    /\ \A k \in DOMAIN Blits :
           /\ Blits[k].srcExtent =
                  Extent(LevelSize(texWidth, k - 1), LevelSize(texHeight, k - 1))
           /\ Blits[k].dstExtent =
                  Extent(LevelSize(texWidth, k), LevelSize(texHeight, k))
    /\ mipLevels > 0 =>
           /\ 2 ^ (mipLevels - 1) <= Max(texWidth, texHeight)
           /\ Max(texWidth, texHeight) < 2 ^ mipLevels
           /\ LevelSize(texWidth, mipLevels - 1) = 1
           /\ LevelSize(texHeight, mipLevels - 1) = 1
           /\ (texWidth = 256 /\ texHeight = 256) => mipLevels = 9

\* the 256 x 3 texture: generateMipmaps has finished, the height reached 1
\* long before the width did
C13_WideTextureDone ==
    /\ mipPc = "done"
    /\ texWidth = 256
    /\ texHeight = 3
    /\ mipLevels = 9

---------------------------------------------------------------------------
(* Properties of the staging uploads *)

\* C14: once createVertexBuffer (createIndexBuffer) has returned, the
\* device-local vertex (index) buffer holds the bytes of the host buffer,
\* as many and in the same order
C14_UploadRoundTrip ==
    /\ "createVertexBuffer" \in uploaded =>
           deviceLocal["vertexBuffer"] = hostVertices
    /\ "createIndexBuffer" \in uploaded =>
           deviceLocal["indexBuffer"] = hostIndices

\* both uploads are complete, of two different bytes of vertex data
C14_BothUploaded ==
    /\ {"createVertexBuffer", "createIndexBuffer"} \subseteq uploaded
    /\ hostVertices = << "a", "b" >>
    /\ Len(hostIndices) > 0

\* C15: at most one one-shot submission is outstanding, and only while
\* endSingleTimeCommands waits for it: the CPU is nowhere else before it
\* has completed; the staging buffer exists as long as a submitted copy
\* that reads it has not completed
C15_UploadSynchronous ==
    /\ Len(submitted) <= 1
    /\ submitted # << >> => UpAt("waitIdle")
    /\ \A k \in DOMAIN submitted :
           submitted[k].src = "stagingBuffer" => stagingBuffer.alive

\* createTextureImage is about to return and release its staging buffer:
\* its three one-shot command buffers have been submitted and awaited
C15_TextureOneShotsDone ==
    /\ UpAt("return")
    /\ Head(upPc).fn = "createTextureImage"
    /\ oneShot.op = "generateMipmaps"
    /\ stagingBuffer.alive
    /\ deviceLocal["textureImage"] = Pixels

---------------------------------------------------------------------------
(* Properties of device selection *)

\* the device has a graphics family and a family that presents to the
\* surface, anisotropic sampling, every required extension, and a surface
\* format and a present mode
Qualifies(device) ==
    /\ \E f \in DOMAIN device.queueFamilies : device.queueFamilies[f].graphics
    /\ \E f \in DOMAIN device.queueFamilies : device.queueFamilies[f].present
    /\ device.samplerAnisotropy
    /\ RequiredExtensions \subseteq device.extensions
    /\ device.formats >= 1
    /\ device.presentModes >= 1

DeviceChosen == pickPc \in {"found", "createLogicalDevice"}

\* C17: the device pickPhysicalDevice chooses qualifies and the loop has
\* passed over a device only if it does not qualify, so the chosen one is
\* the first that does; createLogicalDevice resolves a graphics family and
\* a present family of the chosen device; when pickPhysicalDevice throws
\* every device has been passed over and none is selected
C17_FirstSuitableDevice ==
    /\ [](/\ DeviceChosen =>
               /\ physicalDevice = pickI
               /\ pickI \in 1 .. deviceCount
               /\ Qualifies(candidate)
          /\ pickPc = "createLogicalDevice" =>
               /\ queueIndices.graphicsFamily.has
               /\ queueIndices.presentFamily.has
               /\ candidate.queueFamilies[
                      queueIndices.graphicsFamily.value + 1].graphics
               /\ candidate.queueFamilies[
                      queueIndices.presentFamily.value + 1].present
          /\ pickPc = "thrown" =>
               /\ physicalDevice = 0
               /\ pickI = IF deviceCount = 0 THEN 0 ELSE deviceCount + 1)
    /\ [][pickI' # pickI =>
             /\ pickI' = pickI + 1
             /\ (pickI >= 1 => ~Qualifies(candidate))]_vars

\* the second GPU has been chosen after the first was passed over, and its
\* graphics family and its present family are different families
C17_SecondDeviceChosen ==
    /\ pickPc = "createLogicalDevice"
    /\ physicalDevice = 2
    /\ queueIndices.graphicsFamily.value # queueIndices.presentFamily.value

---------------------------------------------------------------------------
(* Properties of error handling and of the frame loop's bookkeeping *)

FatalErrorRaised == exception.what = "SystemError"

RECURSIVE SubmissionsIn(_)
\* the number of submissions of the slots in S the GPU has not completed
SubmissionsIn(S) ==
    IF S = {}
    THEN 0
    ELSE LET s == CHOOSE x \in S : TRUE
         IN  Cardinality(pending[s]) + SubmissionsIn(S \ {s})

FramesInFlight == SubmissionsIn(Slots)

\* C18: the frames submitted to the GPU and not yet completed never number
\* more than MAX_FRAMES_IN_FLIGHT, however many images the swapchain has
C18_BoundedRunAhead == FramesInFlight <= MAX_FRAMES_IN_FLIGHT

\* the CPU has run ahead as far as it may: every slot holds a running frame
\* of a three-image swapchain and drawFrame is held at its fence wait
C18_AllSlotsBusy ==
    /\ At("df_waitForFences")
    /\ swapchainImages = 3
    /\ FramesInFlight = MAX_FRAMES_IN_FLIGHT
    /\ ~FenceSignaled(currentFrame)

\* a submission has been handed to the GPU in this step
Submitting == \E s \in Slots : ~(pending'[s] \subseteq pending[s])

LastStep == df.steps[Len(df.steps)]

\* C19: currentFrame is always one of the slots 0 .. MAX_FRAMES_IN_FLIGHT-1;
\* a drawFrame that has submitted and presented stands before the advance,
\* and the advance takes currentFrame to (currentFrame + 1) mod
\* MAX_FRAMES_IN_FLIGHT; nothing else changes currentFrame and every
\* submission goes through the current slot, so that consecutive
\* submissions use the slots in cyclic order
C19_RoundRobinAdvance ==
    /\ [](currentFrame \in Slots)
    /\ [](df.steps # << >> /\ LastStep[1] = "present" =>
              /\ At("df_advance")
              /\ df.steps[Len(df.steps) - 1] =
                     << "submit", result.value, currentFrame >>)
    /\ [][At("df_advance") /\ pc' # pc =>
              currentFrame' = (currentFrame + 1) % MAX_FRAMES_IN_FLIGHT]_vars
    /\ [][currentFrame' # currentFrame =>
              /\ At("df_advance")
              /\ LastStep[1] = "present"]_vars
    /\ [][Submitting =>
              \A s \in Slots :
                  pending'[s] # pending[s] => s = currentFrame]_vars

\* a frame submitted through the last slot has been presented and the
\* advance has wrapped to slot 0 while that frame still runs on the GPU
C19_WrappedToFirstSlot ==
    /\ At("df_return")
    /\ df.steps # << >>
    /\ LastStep = << "advance" >>
    /\ df.waited = MAX_FRAMES_IN_FLIGHT - 1
    /\ currentFrame = 0
    /\ pending[MAX_FRAMES_IN_FLIGHT - 1] # {}

\* the statements of a drawFrame that runs to its end, for the slot that is
\* current and the image acquired
FrameSteps(slot, image) ==
    << << "waitForFences", slot >>,
       << "acquireNextImage", image >>,
       << "waitImageFence", image >>,
       << "claimImage", image, slot >>,
       << "resetFences", slot >>,
       << "updateUniformBuffer", image >>,
       << "submit", image, slot >>,
       << "present", image >>,
       << "advance" >> >>

IsPrefix(s, t) ==
    /\ Len(s) <= Len(t)
    /\ \A i \in 1 .. Len(s) : s[i] = t[i]

\* C20: what a drawFrame has done is at every moment an initial part of:
\* wait on the current slot's fence, acquire an image, wait on the fence
\* of the slot recorded for that image, record the claim, reset the
\* current slot's fence, write the image's uniform buffer, submit,
\* present, advance; a submission is made exactly when the first six have
\* been done, with the slot's fence unsignaled, and the claim recorded
\* for an image imagesInFlight has an element for stays in place from the
\* claim to the end of the frame
C20_StepOrder ==
    /\ [](df.steps # << >> =>
              /\ IsPrefix(df.steps,
                          FrameSteps(df.waited,
                                     IF Len(df.steps) >= 2
                                     THEN df.steps[2][2] ELSE 0))
              /\ Len(df.steps) \in 2 .. 8 => df.steps[2][2] = result.value
              /\ Len(df.steps) \in 1 .. 8 => df.waited = currentFrame
              /\ Len(df.steps) \in 4 .. 8 /\ result.value < Len(imagesInFlight)
                     => imagesInFlight[result.value + 1] = currentFrame
              /\ Len(df.steps) \in 5 .. 6 => ~inFlightFences[currentFrame + 1])
    /\ [][Submitting =>
              /\ df.steps = SubSeq(FrameSteps(currentFrame, result.value), 1, 6)
              /\ ~inFlightFences[currentFrame + 1]
              /\ pending' = [pending EXCEPT
                                ![currentFrame] = @ \cup {result.value}]
              /\ df'.steps = SubSeq(FrameSteps(currentFrame, result.value),
                                    1, 7)]_vars

\* a whole frame has been carried out after the image it acquired had been
\* claimed by the other slot, whose frame it had to wait for
C20_WholeFrameDone ==
    /\ At("df_return")
    /\ df.steps = FrameSteps(1, 0)
    /\ pending[1] = {0}
    /\ pending[0] # {}

---------------------------------------------------------------------------
(* createSwapchain's image count, for the capabilities a surface may report *)

\* VkSurfaceCapabilitiesKHR: minImageCount is at least one, maxImageCount is
\* zero (no limit) or at least minImageCount
ReportedCounts ==
    {c \in ((1 .. MaxReportedCount) \cup {UINT32_MAX})
              \X ((0 .. MaxReportedCount) \cup {UINT32_MAX}) :
        c[2] = 0 \/ c[1] <= c[2]}

CountSurfaces ==
    {[SurfaceFixed EXCEPT !.minImageCount = c[1], !.maxImageCount = c[2]] :
        c \in ReportedCounts}

CountInit ==
    /\ pc = << "createSwapchain_imageCount" >>
    /\ exitStatus = "running"
    /\ exception = NoException
    /\ hppThrowsOutOfDate = TRUE
    /\ quitting = FALSE
    /\ currentFrame = 0
    /\ inFlightFences = << >>
    /\ imagesInFlight = << >>
    /\ pending = [s \in Slots |-> {}]
    /\ result = NoResult
    /\ swapchainImages = 0
    /\ swapchainImageFormat = "Undefined"
    /\ swapchainExtent = Extent(0, 0)
    /\ imageCount = 0
    /\ handles = [k \in HandleKinds |-> "Null"]
    /\ arrays = [k \in ArrayKinds |-> << >>]
    /\ surface \in CountSurfaces
    /\ window = Extent(4, 2)
    /\ createdFor = [surface |-> surface, window |-> window]
    /\ df = NoFrame
    /\ MemIdle
    /\ MipIdle
    /\ UpIdle
    /\ PickIdle
    /\ SemIdle

\* uint32_t imageCount = minImageCount + 1; if (maxImageCount > 0 &&
\* imageCount > maxImageCount) imageCount = maxImageCount;
createSwapchainImageCount ==
    /\ At("createSwapchain_imageCount")
    /\ imageCount' = RequestedImageCount(surface)
    /\ pc' = Tail(pc)
    /\ UNCHANGED << cpuVars, swapchainImages, swapchainImageFormat,
                    swapchainExtent, handles, arrays, createdFor, envVars,
                    gpuVars >>

CountSpec == CountInit /\ [][createSwapchainImageCount]_vars

\* C21 as stated: the image count asked for lies in
\* [minImageCount, maxImageCount] for every pair the surface reports,
\* maxImageCount = 0 included
C21_ImageCountInReportedRange ==
    pc = << >> =>
        /\ surface.minImageCount <= imageCount
        /\ imageCount <= surface.maxImageCount

\* C21: for minImageCount below UINT32_MAX the image count asked for is at
\* least minImageCount; it is at most maxImageCount when maxImageCount is
\* not zero, and it is minImageCount + 1 when maxImageCount is zero
C21_ImageCountClamp ==
    (pc = << >> /\ surface.minImageCount < UINT32_MAX) =>
        /\ surface.minImageCount <= imageCount
        /\ surface.maxImageCount > 0 => imageCount <= surface.maxImageCount
        /\ surface.maxImageCount = 0 =>
               imageCount = surface.minImageCount + 1
        /\ imageCount <= surface.minImageCount + 1

\* the count has been cut down to the maxImageCount of a surface whose
\* minImageCount equals it
C21_CutToMaximum ==
    /\ pc = << >>
    /\ surface.minImageCount = 2
    /\ surface.maxImageCount = 2
    /\ imageCount = 2

---------------------------------------------------------------------------
(* Properties of the frame loop's synchronization state *)

\* C22: once the sync objects exist and outside recreateSwapchain,
\* imagesInFlight has one entry per image of the current swapchain, and an
\* image index acquisition has returned is an index into imagesInFlight
C22_ImagesInFlightConsistent ==
    (SyncObjectsCreated /\ ~InRecreate /\ ~RebuildAborted) =>
        /\ Len(imagesInFlight) = swapchainImages
        /\ result.result \in {"Success", "Suboptimal"}
               => result.value < Len(imagesInFlight)

\* drawFrame has reset slot s's fence and has not yet submitted
ResetNotSubmitted(s) ==
    /\ s = currentFrame
    /\ Len(df.steps) \in 5 .. 6

\* C23 as stated: in every state a fence is unsignaled only if a
\* submission that will signal it is pending on the graphics queue
C23_UnsignaledOnlyWhilePending ==
    SyncObjectsCreated =>
        \A s \in Slots : ~inFlightFences[s + 1] => pending[s] # {}

\* C23: a fence is unsignaled only while a submission that will signal it
\* is pending, or between drawFrame's reset of it and the submit that
\* follows (or after the process has failed there); the fence drawFrame
\* waits for is therefore signaled or about to be, and with a GPU that
\* completes every batch both fence waits of drawFrame return
C23_NoFenceDeadlock ==
    /\ [](SyncObjectsCreated =>
              \A s \in Slots :
                  ~inFlightFences[s + 1] =>
                      \/ pending[s] # {}
                      \/ ResetNotSubmitted(s)
                      \/ FatalErrorRaised)
    /\ [](At("df_waitForFences") =>
              inFlightFences[currentFrame + 1] \/ pending[currentFrame] # {})
    /\ [](At("df_waitImageFence") =>
              \A v \in ImagesInFlightRead(result.value) :
                  v # NoSlot => inFlightFences[v + 1] \/ pending[v] # {})
    /\ At("df_waitForFences") ~> ~At("df_waitForFences")
    /\ At("df_waitImageFence") ~> ~At("df_waitImageFence")

\* both fence waits of a frame have returned, the second one having been
\* on the fence of the other slot, which had claimed the image acquired
C23_BothWaitsReturned ==
    /\ At("df_claimImage")
    /\ result.value < Len(imagesInFlight)
    /\ imagesInFlight[result.value + 1] = 1 - currentFrame
    /\ df.waited = currentFrame
    /\ swapchainImages # Len(imagesInFlight)

\* the CPU's step leaves the frame loop's synchronization state as it is
SyncStateKept ==
    /\ currentFrame' = currentFrame
    /\ imagesInFlight' = imagesInFlight
    /\ inFlightFences' = inFlightFences

\* C24: the steps of drawFrame up to the acquisition, and every step from
\* an acquisition that reported out-of-date to drawFrame's return, leave
\* currentFrame, imagesInFlight and every fence as they are (a fence
\* changes only by the GPU signaling it); the frame returns having done no
\* more than wait and acquire, with the current slot's fence signaled, so
\* that the next drawFrame starts on the same slot
C24_AbortedFrameKeepsSyncState ==
    /\ [][((At("df_waitForFences") \/ At("df_acquireNextImage")
              \/ At("df_checkResult")) /\ pc' # pc) => SyncStateKept]_vars
    /\ [][AcquireReportedOutOfDate =>
              /\ pc' # pc => SyncStateKept
              /\ currentFrame' = currentFrame
              /\ imagesInFlight' = imagesInFlight
              /\ \A s \in Slots :
                     inFlightFences[s + 1] => inFlightFences'[s + 1]]_vars
    /\ [](AcquireReportedOutOfDate /\ result.result = "OutOfDate" =>
              /\ df.steps = << << "waitForFences", currentFrame >>,
                               << "acquireNextImage", 0 >> >>
              /\ inFlightFences[currentFrame + 1])
    /\ [][(At("df_return") /\ result.result = "OutOfDate" /\ pc' # pc) =>
              /\ SyncStateKept
              /\ (At("mainLoop"))'
              /\ inFlightFences[currentFrame + 1]]_vars

\* an aborted frame of the second slot has run recreateSwapchain and is
\* about to return, an image still being claimed by the first slot
C24_AbortedOnSecondSlot ==
    /\ At("df_return")
    /\ result.result = "OutOfDate"
    /\ currentFrame = 1
    /\ \E i \in DOMAIN imagesInFlight : imagesInFlight[i] = 0

\* drawFrame is about to write uniform buffer result.value from the CPU, or
\* has written it and is about to submit command buffer result.value again
TouchesImageData == At("df_updateUniformBuffer") \/ At("df_submit")

\* C25: when drawFrame writes the uniform buffer of an image and submits
\* the image's command buffer again, no submission made earlier for that
\* image is still incomplete on the GPU
C25_NoRaceOnImageData ==
    TouchesImageData => \A s \in Slots : result.value \notin pending[s]

\* the same, for the images imagesInFlight has an entry for
NoRaceWithinBounds ==
    (TouchesImageData /\ result.value < Len(imagesInFlight))
        => \A s \in Slots : result.value \notin pending[s]

---------------------------------------------------------------------------
(* The frame loop's semaphores.  The loop is taken up after initVulkan,   *)
(* on a surface that keeps its capabilities; what is followed is which    *)
(* semaphore has a pending signal and which presents have not yet waited. *)
(* A batch waits on its image-available semaphore and signals its         *)
(* render-finished semaphore and its fence when it completes; the wait of *)
(* a present is carried out by the presentation engine at some time after *)
(* the semaphore has been signaled, and nothing the program can observe   *)
(* tells when.                                                            *)

\* what no step of the frame loop changes here
semKept == << exitStatus, quitting, swapchainImages, swapchainImageFormat,
              swapchainExtent, imageCount, handles, arrays, surface, window,
              createdFor, hppThrowsOutOfDate, df, memVars, mipVars, upVars,
              pickVars >>

\* the state initVulkan leaves behind
SemInit ==
    /\ pc = << "pollEvent" >>
    /\ exitStatus = "running"
    /\ exception = NoException
    /\ hppThrowsOutOfDate \in BOOLEAN
    /\ quitting = FALSE
    /\ currentFrame = 0
    /\ surface = SurfaceFixed
    /\ window = Extent(4, 2)
    /\ createdFor = [surface |-> surface, window |-> window]
    /\ imageCount = RequestedImageCount(surface)
    /\ swapchainImages \in DriverImageCounts(imageCount, surface)
    /\ swapchainImageFormat = chooseSwapSurfaceFormat(surface.formats).format
    /\ swapchainExtent = chooseSwapExtent(surface, window)
    /\ handles = [k \in HandleKinds |-> "Cur"]
    /\ arrays = [k \in ArrayKinds |-> [i \in 1 .. swapchainImages |-> "Cur"]]
    /\ inFlightFences = [i \in 1 .. MAX_FRAMES_IN_FLIGHT |-> TRUE]
    /\ imagesInFlight = [i \in 1 .. swapchainImages |-> NoSlot]
    /\ pending = [s \in Slots |-> {}]
    /\ result = NoResult
    /\ df = NoFrame
    /\ MemIdle
    /\ MipIdle
    /\ UpIdle
    /\ PickIdle
    /\ SemIdle

\* the event loop: no event, or SDL_WINDOWEVENT_RESIZED and recreateSwapchain
semPollEvent ==
    /\ At("pollEvent")
    /\ \E next \in {"df_waitForFences", "rc_waitIdle"} : pc' = << next >>
    /\ UNCHANGED << semKept, exception, currentFrame, imagesInFlight, result,
                    gpuVars, semVars >>

\* recreateSwapchain: device->waitIdle() returns when the queues have
\* nothing left to do, the waits of the presents included; the swapchain is
\* rebuilt with as many images, the semaphores and fences are kept
semRecreateSwapchain ==
    /\ At("rc_waitIdle")
    /\ DeviceIdle
    /\ \A s \in Slots : presentWaits[s] = {}
    /\ result' = NoResult
    /\ pc' = << "pollEvent" >>
    /\ UNCHANGED << semKept, exception, currentFrame, imagesInFlight,
                    gpuVars, semVars >>

semWaitForFences ==
    /\ At("df_waitForFences")
    /\ FenceSignaled(currentFrame)
    /\ pc' = << "df_acquireNextImage" >>
    /\ UNCHANGED << semKept, exception, currentFrame, imagesInFlight, result,
                    gpuVars, semVars >>

\* the images the presentation engine can hand out: those no batch is
\* rendering to and no present is holding
Acquirable ==
    {i \in 0 .. (swapchainImages - 1) :
        \A s \in Slots : i \notin pending[s] /\ i \notin presentWaits[s]}

\* acquireNextImageKHR(..., imageAvailableSemaphores[currentFrame], nullptr):
\* an image, with a signal of the semaphore, or out-of-date without one
semAcquire ==
    /\ At("df_acquireNextImage")
    /\ \/ /\ hppThrowsOutOfDate
          /\ exception' = [what |-> "OutOfDateKHRError",
                           from |-> "acquireNextImageKHR"]
          /\ pc' = << >>
          /\ UNCHANGED << result, imageAvailableSemaphores >>
       \/ /\ ~hppThrowsOutOfDate
          /\ result' = [result |-> "OutOfDate", value |-> 0]
          /\ pc' = << "rc_waitIdle" >>
          /\ UNCHANGED << exception, imageAvailableSemaphores >>
       \/ /\ \E r \in {"Success", "Suboptimal"} : \E i \in Acquirable :
                result' = [result |-> r, value |-> i]
          /\ imageAvailableSemaphores' =
                 [imageAvailableSemaphores EXCEPT ![currentFrame] = TRUE]
          /\ pc' = << "df_waitImageFence" >>
          /\ UNCHANGED exception
    /\ UNCHANGED << semKept, currentFrame, imagesInFlight, gpuVars,
                    renderFinishedSemaphores, presentWaits >>

semWaitImageFence ==
    /\ At("df_waitImageFence")
    /\ imagesInFlight[result.value + 1] # NoSlot
           => FenceSignaled(imagesInFlight[result.value + 1])
    /\ pc' = << "df_claimImage" >>
    /\ UNCHANGED << semKept, exception, currentFrame, imagesInFlight, result,
                    gpuVars, semVars >>

semClaimImage ==
    /\ At("df_claimImage")
    /\ imagesInFlight' =
           [imagesInFlight EXCEPT ![result.value + 1] = currentFrame]
    /\ pc' = << "df_resetFences" >>
    /\ UNCHANGED << semKept, exception, currentFrame, result, gpuVars,
                    semVars >>

\* resetFences, then updateUniformBuffer
semResetFences ==
    /\ At("df_resetFences")
    /\ inFlightFences' = [inFlightFences EXCEPT ![currentFrame + 1] = FALSE]
    /\ pc' = << "df_submit" >>
    /\ UNCHANGED << semKept, exception, currentFrame, imagesInFlight, result,
                    pending, semVars >>

\* graphicsQueue.submit: wait imageAvailableSemaphores[currentFrame],
\* signal renderFinishedSemaphores[currentFrame] and the slot's fence
semSubmit ==
    /\ At("df_submit")
    /\ pending' = [pending EXCEPT ![currentFrame] = @ \cup {result.value}]
    /\ pc' = << "df_present" >>
    /\ UNCHANGED << semKept, exception, currentFrame, imagesInFlight, result,
                    inFlightFences, semVars >>

\* presentQueue.presentKHR: wait renderFinishedSemaphores[currentFrame];
\* the request is queued whatever presentKHR returns, or the out-of-date
\* error is thrown
semPresent ==
    /\ At("df_present")
    /\ presentWaits' = [presentWaits EXCEPT ![currentFrame] =
                            @ \cup {result.value}]
    /\ \/ /\ hppThrowsOutOfDate
          /\ exception' = [what |-> "OutOfDateKHRError", from |-> "presentKHR"]
          /\ pc' = << >>
       \/ /\ pc' = << "df_advance" >>
          /\ UNCHANGED exception
    /\ UNCHANGED << semKept, currentFrame, imagesInFlight, result, gpuVars,
                    imageAvailableSemaphores, renderFinishedSemaphores >>

semAdvance ==
    /\ At("df_advance")
    /\ currentFrame' = NextFrame(currentFrame)
    /\ result' = NoResult
    /\ pc' = << "pollEvent" >>
    /\ UNCHANGED << semKept, exception, imagesInFlight, gpuVars, semVars >>

\* the batch submitted with slot s has waited on the slot's image-available
\* semaphore, has run, and signals the slot's render-finished semaphore and
\* fence
semGpuComplete(s) ==
    /\ pending[s] # {}
    /\ pending' = [pending EXCEPT ![s] = {}]
    /\ inFlightFences' = [inFlightFences EXCEPT ![s + 1] = TRUE]
    /\ imageAvailableSemaphores' =
           [imageAvailableSemaphores EXCEPT ![s] = FALSE]
    /\ renderFinishedSemaphores' =
           [renderFinishedSemaphores EXCEPT ![s] = TRUE]
    /\ UNCHANGED << pc, semKept, exception, currentFrame, imagesInFlight,
                    result, presentWaits >>

\* the presentation engine carries out the wait of a present queued with
\* slot s's render-finished semaphore, which takes the signal
semPresentEngine(s) ==
    /\ renderFinishedSemaphores[s]
    /\ \E i \in presentWaits[s] :
          presentWaits' = [presentWaits EXCEPT ![s] = @ \ {i}]
    /\ renderFinishedSemaphores' =
           [renderFinishedSemaphores EXCEPT ![s] = FALSE]
    /\ UNCHANGED << pc, semKept, exception, currentFrame, imagesInFlight,
                    result, gpuVars, imageAvailableSemaphores >>

SemNext ==
    \/ semPollEvent
    \/ semRecreateSwapchain
    \/ semWaitForFences
    \/ semAcquire
    \/ semWaitImageFence
    \/ semClaimImage
    \/ semResetFences
    \/ semSubmit
    \/ semPresent
    \/ semAdvance
    \/ \E s \in Slots : semGpuComplete(s)
    \/ \E s \in Slots : semPresentEngine(s)

SemSpec == SemInit /\ [][SemNext]_vars

\* the step acquires an image with the current slot's semaphore
AcquireSignals ==
    At("df_acquireNextImage") /\ (At("df_waitImageFence"))'

\* the step completes the batch of slot s
BatchCompletes(s) == pending[s] # {} /\ pending'[s] = {}

\* image-available: an acquisition signals the slot's semaphore only when
\* it has no pending signal, and a batch finds the signal of its frame's
\* acquisition
ImageAvailableDiscipline ==
    /\ [][AcquireSignals => ~imageAvailableSemaphores[currentFrame]]_vars
    /\ [][\A s \in Slots :
              BatchCompletes(s) => imageAvailableSemaphores[s]]_vars
    /\ [](At("df_submit") => imageAvailableSemaphores[currentFrame])

\* C26: an acquisition signals the slot's image-available semaphore only
\* when it has no pending signal, every batch submitted finds the pending
\* signal of its frame's acquisition, and a slot's render-finished
\* semaphore has no pending signal when a batch signals it, each signal
\* being taken by one present before the slot's next batch signals again
C26_BinarySemaphoreDiscipline ==
    /\ ImageAvailableDiscipline
    /\ [][\A s \in Slots :
              BatchCompletes(s) => ~renderFinishedSemaphores[s]]_vars
    /\ [](\A s \in Slots : Cardinality(presentWaits[s]) <= 1)

---------------------------------------------------------------------------
(* Properties of the end of the frame loop *)

\* the calls of drawFrame that lie ahead or are in progress
FramesAhead == Cardinality({i \in DOMAIN pc : pc[i] = "df_return"})

\* C27: when a quit event is polled one drawFrame lies ahead and no other
\* is started afterwards; the loop is then left for the idle wait, which
\* returns only with every submission complete, then cleanup, then main's
\* return; from the end of that drawFrame on nothing is submitted, and
\* cleanup and the release of the application's objects at main's return
\* find no submitted work incomplete
C27_ShutdownOrdering ==
    /\ [][(~quitting /\ quitting') =>
              At("pollEvent") /\ FramesAhead = 1]_vars
    /\ [](quitting => FramesAhead <= 1)
    /\ [][quitting => FramesAhead' <= FramesAhead]_vars
    /\ [][(quitting /\ At("mainLoop") /\ pc' # pc) =>
              /\ FramesAhead = 0
              /\ pc' = << "mainLoop_waitIdle", "cleanup", "return" >>]_vars
    /\ [][(At("mainLoop_waitIdle") /\ pc' # pc /\ ~FatalErrorRaised') =>
              /\ \A s \in Slots : pending[s] = {}
              /\ pc' = << "cleanup", "return" >>]_vars
    /\ [][(quitting /\ FramesAhead = 0) =>
              \A s \in Slots : pending'[s] \subseteq pending[s]]_vars
    /\ []((At("cleanup") \/ At("return") \/ exitStatus = "EXIT_SUCCESS") =>
              /\ quitting
              /\ \A s \in Slots : pending[s] = {}
              /\ ~InRecreate)

\* the loop has been left after a quit event and the idle wait is held up
\* by the last frame, which is still running on the GPU
C27_WaitingForLastFrame ==
    /\ At("mainLoop_waitIdle")
    /\ quitting
    /\ pending[1 - currentFrame] # {}
    /\ exception = NoException

=============================================================================
